---- MODULE Spec2Model ----
(***************************************************************************)
(* Budget analysis engine of the transaction analyzer.                     *)
(*                                                                         *)
(* Money is counted in cents (50.0 in config.py is 5000 here): the source  *)
(* computes in binary floating point, the model in exact decimal           *)
(* arithmetic.  A ratio such as percentage_used is kept as a fraction      *)
(* [num, den] and compared by cross-multiplication.                        *)
(* Thresholds are kept in hundredths (1.2 is 120), so that                 *)
(* `threshold * 100` of the source is the number itself, in percent.       *)
(***************************************************************************)
EXTENDS Integers, Sequences, FiniteSets, TLC

VARIABLES
    config,      \* budget_limits, overspending_threshold, warning_threshold of the analyzer
    df,          \* the transaction batch (rows of the DataFrame, in row order)
    pc,          \* "loading" while rows arrive, "analysed" once the analyzer has run
    analysis,    \* the dict returned by analyze_daily_overspending
    checks,      \* the dicts returned by the five risk checks, in evaluation order
    assessment,  \* the RiskAssessment returned by assess_financial_risks
    analysis_results,  \* the dict of earlier analyses handed to the specialized roles
    opportunities,     \* the list returned by identify_growth_opportunities
    spending_trends,   \* the dict returned by analyze_spending_trends
    raw_data,          \* the rows handed to process_transactions, header first
    forecasts          \* the dicts returned by the calls of _analyze_predictive_spend

vars == <<config, df, pc, analysis, checks, assessment, analysis_results, opportunities,
          spending_trends, raw_data, forecasts>>

(***************************************************************************)
(* Bounds of the model.                                                    *)
(***************************************************************************)
MaxRows == 4

(***************************************************************************)
(* config.py                                                               *)
(***************************************************************************)
DAILY_BUDGET_LIMITS ==
    [c \in {"Food & Dining", "Transportation", "Shopping", "Entertainment",
            "Utilities", "Healthcare", "Subscriptions", "Miscellaneous"} |->
        CASE c = "Food & Dining"  -> 5000
          [] c = "Transportation" -> 3000
          [] c = "Shopping"       -> 4000
          [] c = "Entertainment"  -> 2500
          [] c = "Utilities"      -> 1500
          [] c = "Healthcare"     -> 2000
          [] c = "Subscriptions"  -> 1000
          [] c = "Miscellaneous"  -> 3500]

OVERSPENDING_THRESHOLD == 120
WARNING_THRESHOLD == 80

\* The shipped configuration, and customised ones ("user should customize
\* these"): one with a lower overspending threshold and the limit of one
\* category set to 0, and one without any limit (its total budget is 0).
DefaultConfig ==
    [budget_limits |-> DAILY_BUDGET_LIMITS,
     overspending_threshold |-> OVERSPENDING_THRESHOLD,
     warning_threshold |-> WARNING_THRESHOLD]

CustomConfig ==
    [budget_limits |-> [DAILY_BUDGET_LIMITS EXCEPT !["Healthcare"] = 0],
     overspending_threshold |-> 100,
     warning_threshold |-> WARNING_THRESHOLD]

EmptyConfig ==
    [budget_limits |-> <<>>,
     overspending_threshold |-> OVERSPENDING_THRESHOLD,
     warning_threshold |-> WARNING_THRESHOLD]

Configs == {DefaultConfig, CustomConfig, EmptyConfig}

(***************************************************************************)
(* Inputs: the rows a batch is made of.                                    *)
(***************************************************************************)
\* Category names in the order pandas' groupby sorts them (by code point).
CategoryOrder ==
    <<"Entertainment", "Food & Dining", "Groceries", "Healthcare", "Income",
      "Miscellaneous", "Shopping", "Subscriptions", "Transportation", "Utilities">>

\* A daily batch holds the rows of one day.
Today == CHOOSE d \in {1} : TRUE

Row(cat, amount, date) == [Category |-> cat, Amount |-> amount, Date |-> date]

\* Expense rows (negative amounts), in cents.  For Subscriptions (limit
\* 1000): 400+400 is 80%, 1200 is 120%, 1200+400+400 is 200%.  For
\* Transportation (3000): 1200+1200 is 80%, 5750 (57.50) is 191.7%.  For
\* Food & Dining (5000): 2500 is 50%, 5750 is 115%, 10655 (106.55) is
\* 213.1%.  For
\* Healthcare (2000): 3000 is 150%.  Groceries has no limit in any
\* configuration.
ExpenseRows ==
    {Row("Subscriptions", -a, Today) : a \in {400, 1200, 5750}}
    \cup {Row("Transportation", -a, Today) : a \in {1200, 5750}}
    \cup {Row("Food & Dining", -a, Today) : a \in {2500, 5750, 10655}}
    \cup {Row("Healthcare", -a, Today) : a \in {3000, 10655}}
    \cup {Row("Groceries", -10655, Today)}

\* Income rows (positive amounts): a refund booked under a budgeted category.
IncomeRows == {Row("Food & Dining", 400, Today)}

InputRows == ExpenseRows \cup IncomeRows

(***************************************************************************)
(* DataFrame helpers (pandas)                                              *)
(***************************************************************************)
Is_Expense(row) == row.Amount < 0

Abs_Amount(row) == IF row.Amount < 0 THEN -row.Amount ELSE row.Amount

\* Variant of ExpensesOf that forgets the Is_Expense mask
ExpensesOf_unfiltered(frame) == frame

\* df[df['Is_Expense']]
ExpensesOf(frame) == SelectSeq(frame, Is_Expense)

\* frame['Abs_Amount'].sum()
RECURSIVE SumAbsAmount(_)
SumAbsAmount(frame) ==
    IF frame = <<>> THEN 0
    ELSE Abs_Amount(Head(frame)) + SumAbsAmount(Tail(frame))

\* expenses[expenses['Category'] == category]
RowsOfCategory(frame, category) ==
    SelectSeq(frame, LAMBDA r : r.Category = category)

\* The index of expenses.groupby('Category'): the categories present, sorted.
GroupKeys(frame) ==
    SelectSeq(CategoryOrder, LAMBDA c : \E i \in DOMAIN frame : frame[i].Category = c)

\* expenses.groupby('Category')['Abs_Amount'].sum(), as (category, spent) pairs
CategorySpending(frame) ==
    [i \in DOMAIN GroupKeys(frame) |->
        [category |-> GroupKeys(frame)[i],
         spent |-> SumAbsAmount(RowsOfCategory(frame, GroupKeys(frame)[i]))]]

\* dict.get(key, 0)
DictGet(d, key) == IF key \in DOMAIN d THEN d[key] ELSE 0

\* sum(d.values())
RECURSIVE SumValues(_)
SumValues(d) ==
    IF DOMAIN d = {} THEN 0
    ELSE LET k == CHOOSE x \in DOMAIN d : TRUE
         IN  d[k] + SumValues([x \in DOMAIN d \ {k} |-> d[x]])

(***************************************************************************)
(* Fractions: [num, den] with den > 0                                      *)
(***************************************************************************)
Frac(n, d) == [num |-> n, den |-> d]

\* f >= k for an integer k
FracGeq(f, k) == f.num >= k * f.den

\* f < g
FracLess(f, g) == f.num * g.den < g.num * f.den

\* f"{x:.0f}": the nearest integer, ties to even
FormatNoDecimals(f) ==
    LET q == f.num \div f.den
        r == f.num % f.den
    IN  IF 2 * r > f.den THEN q + 1
        ELSE IF 2 * r < f.den THEN q
        ELSE IF q % 2 = 0 THEN q ELSE q + 1

Min(a, b) == IF a <= b THEN a ELSE b
Max(a, b) == IF a >= b THEN a ELSE b

(***************************************************************************)
(* OverspendingAnalyzer (overspending_analyzer.py)                         *)
(***************************************************************************)
\* f > k for an integer k
FracGt(f, k) == f.num > k * f.den

\* Variant of _calculate_severity with strict comparisons
_calculate_severity_strict(percentage_used) ==
    IF FracGt(percentage_used, 200) THEN "Critical"
    ELSE IF FracGt(percentage_used, 150) THEN "High"
    ELSE IF FracGt(percentage_used, 120) THEN "Medium"
    ELSE "Low"

\* _calculate_severity
_calculate_severity(percentage_used) ==
    IF FracGeq(percentage_used, 200) THEN "Critical"
    ELSE IF FracGeq(percentage_used, 150) THEN "High"
    ELSE IF FracGeq(percentage_used, 120) THEN "Medium"
    ELSE "Low"

\* Variant of StatusOf with strict comparisons
StatusOf_strict(cfg, percentage_used) ==
    IF FracGt(percentage_used, cfg.overspending_threshold) THEN "OVERSPENDING"
    ELSE IF FracGt(percentage_used, cfg.warning_threshold) THEN "WARNING"
    ELSE "WITHIN_BUDGET"

\* The status branch of the per-category loop of analyze_daily_overspending
StatusOf(cfg, percentage_used) ==
    IF FracGeq(percentage_used, cfg.overspending_threshold) THEN "OVERSPENDING"
    ELSE IF FracGeq(percentage_used, cfg.warning_threshold) THEN "WARNING"
    ELSE "WITHIN_BUDGET"

\* The category_analysis dict built in the loop body for one category whose
\* budget limit is not 0.  'savings' exists only for WITHIN_BUDGET entries.
CategoryAnalysis(cfg, expenses, category, spent) ==
    LET budget_limit == DictGet(cfg.budget_limits, category)
        percentage_used == Frac(spent * 100, budget_limit)
        status == StatusOf(cfg, percentage_used)
        base == [category |-> category,
                 spent |-> spent,
                 budget |-> budget_limit,
                 percentage_used |-> percentage_used,
                 over_amount |-> spent - budget_limit,
                 transaction_count |-> Len(RowsOfCategory(expenses, category)),
                 status |-> status]
    IN  IF status = "OVERSPENDING"
        THEN base @@ [severity |-> _calculate_severity(percentage_used)]
        ELSE IF status = "WARNING"
        THEN base @@ [severity |-> "Medium"]
        ELSE base @@ [savings |-> budget_limit - spent]

\* The loop over category_spending.items(): categories whose limit is 0 or
\* missing are skipped (continue), the others are analysed in index order.
RECURSIVE AnalyzeCategories(_, _, _)
AnalyzeCategories(cfg, expenses, spending) ==
    IF spending = <<>> THEN <<>>
    ELSE LET item == Head(spending)
             rest == AnalyzeCategories(cfg, expenses, Tail(spending))
         IN  IF DictGet(cfg.budget_limits, item.category) = 0
             THEN rest
             ELSE <<CategoryAnalysis(cfg, expenses, item.category, item.spent)>> \o rest

WithStatus(entries, status) == SelectSeq(entries, LAMBDA e : e.status = status)

\* The deductions of _calculate_spending_score for the overspending alerts
RECURSIVE OverspendingDeduction(_)
OverspendingDeduction(alerts) ==
    IF alerts = <<>> THEN 0
    ELSE (CASE Head(alerts).severity = "Critical" -> 30
            [] Head(alerts).severity = "High" -> 20
            [] Head(alerts).severity = "Medium" -> 15
            [] OTHER -> 10)
         + OverspendingDeduction(Tail(alerts))

\* Variant of UnderBudgetBonus without the 80% condition
UnderBudgetBonus_unconditional(cfg, total_spent) ==
    LET total_budget == SumValues(cfg.budget_limits)
    IN  IF total_budget > 0
        THEN Min(15, ((total_budget - total_spent) * 20) \div total_budget)
        ELSE 0

\* The bonus of _calculate_spending_score for staying under the total budget
UnderBudgetBonus(cfg, total_spent) ==
    LET total_budget == SumValues(cfg.budget_limits)
    IN  IF total_budget > 0 /\ total_spent * 10 < total_budget * 8
        THEN Min(15, ((total_budget - total_spent) * 20) \div total_budget)
        ELSE 0

\* Variant of _calculate_spending_score without the final clamp
_calculate_spending_score_unclamped(cfg, a) ==
    100 - OverspendingDeduction(a.overspending_alerts)
        - Len(a.warning_alerts) * 5
        + Len(a.within_budget) * 3
        + UnderBudgetBonus(cfg, a.total_spent)

\* _calculate_spending_score
_calculate_spending_score(cfg, a) ==
    LET base_score == 100
                      - OverspendingDeduction(a.overspending_alerts)
                      - Len(a.warning_alerts) * 5
                      + Len(a.within_budget) * 3
                      + UnderBudgetBonus(cfg, a.total_spent)
    IN  Min(100, Max(0, base_score))

\* Variant of _determine_risk_level with strict comparisons
_determine_risk_level_strict(score) ==
    IF score > 80 THEN "Excellent"
    ELSE IF score > 60 THEN "Good"
    ELSE IF score > 40 THEN "Fair"
    ELSE IF score > 20 THEN "Poor"
    ELSE "Critical"

\* _determine_risk_level
_determine_risk_level(score) ==
    IF score >= 80 THEN "Excellent"
    ELSE IF score >= 60 THEN "Good"
    ELSE IF score >= 40 THEN "Fair"
    ELSE IF score >= 20 THEN "Poor"
    ELSE "Critical"

\* A recommendation string, by its template, the category it names and the
\* number formatted into it.
Recommendation(kind, category, value) ==
    [kind |-> kind, category |-> category, value |-> value]

OverspendingRecommendation(alert) ==
    IF alert.severity = "Critical"
    THEN Recommendation("URGENT", alert.category, FormatNoDecimals(alert.percentage_used))
    ELSE Recommendation("REDUCE", alert.category, alert.over_amount)

WarningRecommendation(warning) ==
    Recommendation("MONITOR", warning.category, FormatNoDecimals(warning.percentage_used))

\* Variant of MinByPercentage that takes the first entry
MinByPercentage_first(entries) == entries[1]

\* min(entries, key=lambda x: x['percentage_used']): the first entry that no
\* other entry undercuts
MinByPercentage(entries) ==
    LET i == CHOOSE i \in DOMAIN entries :
                /\ \A j \in DOMAIN entries :
                      ~FracLess(entries[j].percentage_used, entries[i].percentage_used)
                /\ \A j \in 1..(i - 1) :
                      FracLess(entries[i].percentage_used, entries[j].percentage_used)
    IN  entries[i]

\* _generate_recommendations
_generate_recommendations(a) ==
    [i \in DOMAIN a.overspending_alerts |->
        OverspendingRecommendation(a.overspending_alerts[i])]
    \o [i \in DOMAIN a.warning_alerts |-> WarningRecommendation(a.warning_alerts[i])]
    \o (IF a.within_budget # <<>>
        THEN LET best_category == MinByPercentage(a.within_budget)
             IN  <<Recommendation("GREAT_JOB", best_category.category, best_category.savings)>>
        ELSE <<>>)
    \o (IF a.risk_level = "High Risk"
        THEN <<Recommendation("DAILY_LIMIT_TIP", "", 0)>>
        ELSE IF a.risk_level = "Medium Risk"
        THEN <<Recommendation("STRICTER_LIMITS_TIP", "", 0)>>
        ELSE <<>>)

\* Variant of _empty_analysis without the no-data message
_empty_analysis_silent ==
    [date |-> "No Data",
     total_spent |-> 0,
     total_transactions |-> 0,
     categories_analyzed |-> 0,
     overspending_alerts |-> <<>>,
     warning_alerts |-> <<>>,
     within_budget |-> <<>>,
     recommendations |-> <<>>,
     spending_score |-> 0,
     risk_level |-> "Unknown"]

\* _empty_analysis
_empty_analysis ==
    [date |-> "No Data",
     total_spent |-> 0,
     total_transactions |-> 0,
     categories_analyzed |-> 0,
     overspending_alerts |-> <<>>,
     warning_alerts |-> <<>>,
     within_budget |-> <<>>,
     recommendations |-> <<Recommendation("NO_DATA", "", 0)>>,
     spending_score |-> 0,
     risk_level |-> "Unknown"]

\* analyze_daily_overspending
analyze_daily_overspending(cfg, frame) ==
    IF frame = <<>> THEN _empty_analysis
    ELSE
    LET expenses == ExpensesOf(frame)
        category_spending == CategorySpending(expenses)
        entries == AnalyzeCategories(cfg, expenses, category_spending)
        a0 == [date |-> frame[1].Date,
               total_spent |-> SumAbsAmount(expenses),
               total_transactions |-> Len(expenses),
               categories_analyzed |-> Len(category_spending),
               overspending_alerts |-> WithStatus(entries, "OVERSPENDING"),
               warning_alerts |-> WithStatus(entries, "WARNING"),
               within_budget |-> WithStatus(entries, "WITHIN_BUDGET"),
               recommendations |-> <<>>,
               spending_score |-> 0,
               risk_level |-> "Unknown"]
        a1 == [a0 EXCEPT !.spending_score = _calculate_spending_score(cfg, a0)]
        a2 == [a1 EXCEPT !.risk_level = _determine_risk_level(a1.spending_score)]
    IN  [a2 EXCEPT !.recommendations = _generate_recommendations(a2)]

(***************************************************************************)
(* One run of the daily analysis: the analyzer is constructed with a       *)
(* configuration, the retrieval layer delivers the rows of the batch, and  *)
(* analyze_daily_overspending is called on it.                             *)
(***************************************************************************)
NoAnalysis == [date |-> "none"]
NoAssessment == [risk_level |-> "none"]
NoSpendingTrends == [trend_direction |-> "none"]

Init ==
    /\ config \in Configs
    /\ df = <<>>
    /\ pc = "loading"
    /\ analysis = NoAnalysis
    /\ checks = <<>>
    /\ assessment = NoAssessment
    /\ analysis_results = <<>>
    /\ opportunities = <<>>
    /\ spending_trends = NoSpendingTrends
    /\ raw_data = <<>>
    /\ forecasts = <<>>

\* The retrieval layer appends one row to the batch.
LoadRow ==
    /\ pc = "loading"
    /\ Len(df) < MaxRows
    /\ \E row \in InputRows : df' = Append(df, row)
    /\ UNCHANGED <<config, pc, analysis, checks, assessment, analysis_results, opportunities, spending_trends,
                   raw_data, forecasts>>

\* analyze_daily_overspending(df)
Analyze ==
    /\ pc = "loading"
    /\ analysis' = analyze_daily_overspending(config, df)
    /\ pc' = "analysed"
    /\ UNCHANGED <<config, df, checks, assessment, analysis_results, opportunities, spending_trends,
                   raw_data, forecasts>>

Next == LoadRow \/ Analyze

Spec == Init /\ [][Next]_vars

(***************************************************************************)
(* RiskOfficerAnalysis (specialized_ai_roles.py)                           *)
(***************************************************************************)
\* The five checks in the order assess_financial_risks evaluates them, with
\* the factor each adds to risk_factors when it triggers.
CheckOrder == <<"volatility", "concentration", "trend", "liquidity", "behavioral">>

\* Severities a check may report: both sides of the 40, 60 and 80 rungs.
SeveritySamples == {0, 39, 40, 59, 60, 79, 80}

\* The recommendation lists the checks return when they trigger.  The trend
\* check prepends one line per deteriorating category (at most three).
CheckRecommendations(check) ==
    CASE check = "volatility" ->
            {<<"daily budgets", "amount alerts", "weekly plan">>}
      [] check = "concentration" ->
            {<<"diversify", "review necessity", "stricter limits">>}
      [] check = "trend" ->
            {<<"address A", "trend alerts", "monthly review">>,
             <<"address A", "address B", "trend alerts", "monthly review">>}
      [] check = "liquidity" ->
            {<<"reduce expenses", "emergency fund", "track cash flow", "target ratio">>}
      [] check = "behavioral" ->
            {<<"waiting period", "spending apps", "shopping times", "review triggers">>}

\* The dicts a check can return: not triggered (empty recommendations) or
\* triggered, with any of the sampled severities.
CheckResults(check) ==
    {[is_risk |-> FALSE, severity |-> s, recommendations |-> <<>>] : s \in SeveritySamples}
    \cup {[is_risk |-> TRUE, severity |-> s, recommendations |-> r] :
            s \in SeveritySamples, r \in CheckRecommendations(check)}

\* Variant of _determine_overall_risk_level whose ladder ends in Minimal Risk
_determine_overall_risk_level_minimal(max_severity, risk_factor_count) ==
    IF max_severity >= 80 \/ risk_factor_count >= 4 THEN "High Risk"
    ELSE IF max_severity >= 60 \/ risk_factor_count >= 3 THEN "Moderate Risk"
    ELSE IF max_severity >= 40 \/ risk_factor_count >= 2 THEN "Low Risk"
    ELSE "Minimal Risk"

\* _determine_overall_risk_level
_determine_overall_risk_level(max_severity, risk_factor_count) ==
    IF max_severity >= 80 \/ risk_factor_count >= 4 THEN "High Risk"
    ELSE IF max_severity >= 60 \/ risk_factor_count >= 3 THEN "Moderate Risk"
    ELSE IF max_severity >= 40 \/ risk_factor_count >= 2 THEN "Low Risk"
    ELSE IF risk_factor_count >= 1 THEN "Minimal Risk"
    ELSE "Low Risk"

\* Variant of MaxOrZero that takes the severity appended last
MaxOrZero_last(s) == IF s = <<>> THEN 0 ELSE s[Len(s)]

\* max(severity_scores) if severity_scores else 0
RECURSIVE MaxOrZero(_)
MaxOrZero(s) ==
    IF s = <<>> THEN 0
    ELSE IF Len(s) = 1 THEN s[1]
    ELSE Max(Head(s), MaxOrZero(Tail(s)))

\* Variant of Flatten that puts the later lists first
RECURSIVE Flatten_reversed(_)
Flatten_reversed(ss) ==
    IF ss = <<>> THEN <<>> ELSE Flatten_reversed(Tail(ss)) \o Head(ss)

\* sequence of sequences, concatenated
RECURSIVE Flatten(_)
Flatten(ss) == IF ss = <<>> THEN <<>> ELSE Head(ss) \o Flatten(Tail(ss))

\* Variant of the confidence that leaves out the cap
Confidence_uncapped(risk_factor_count) == 60 + risk_factor_count * 10

\* confidence = min(95.0, 60.0 + (len(risk_factors) * 10))
Confidence(risk_factor_count) == Min(95, 60 + risk_factor_count * 10)

\* Variant of assess_financial_risks that takes the severity of every check,
\* triggered or not
assess_financial_risks_every_severity(results) ==
    LET triggered == SelectSeq([i \in 1..Len(results) |-> i], LAMBDA i : results[i].is_risk)
        risk_factors == [k \in DOMAIN triggered |-> CheckOrder[triggered[k]]]
        recommendations == Flatten([k \in DOMAIN triggered |-> results[triggered[k]].recommendations])
        severity_scores == [k \in DOMAIN results |-> results[k].severity]
        overall_severity == MaxOrZero(severity_scores)
    IN  [risk_level |-> _determine_overall_risk_level(overall_severity, Len(risk_factors)),
         confidence |-> Confidence(Len(risk_factors)),
         factors |-> risk_factors,
         recommendations |-> recommendations,
         severity_score |-> overall_severity]

\* assess_financial_risks, given the results of the five checks in order:
\* each triggered check appends its factor, extends the recommendations and
\* appends its severity.
assess_financial_risks(results) ==
    LET triggered == SelectSeq([i \in 1..Len(results) |-> i], LAMBDA i : results[i].is_risk)
        risk_factors == [k \in DOMAIN triggered |-> CheckOrder[triggered[k]]]
        recommendations == Flatten([k \in DOMAIN triggered |-> results[triggered[k]].recommendations])
        severity_scores == [k \in DOMAIN triggered |-> results[triggered[k]].severity]
        overall_severity == MaxOrZero(severity_scores)
    IN  [risk_level |-> _determine_overall_risk_level(overall_severity, Len(risk_factors)),
         confidence |-> Confidence(Len(risk_factors)),
         factors |-> risk_factors,
         recommendations |-> recommendations,
         severity_score |-> overall_severity]

\* One risk assessment: the five checks are evaluated and composed.
InitRisk ==
    /\ config = DefaultConfig
    /\ df = <<>>
    /\ pc = "loading"
    /\ analysis = NoAnalysis
    /\ checks = <<>>
    /\ assessment = NoAssessment
    /\ analysis_results = <<>>
    /\ opportunities = <<>>
    /\ spending_trends = NoSpendingTrends
    /\ raw_data = <<>>
    /\ forecasts = <<>>

AssessFinancialRisks ==
    /\ checks = <<>>
    /\ \E v \in CheckResults("volatility"), c \in CheckResults("concentration"),
          t \in CheckResults("trend"), l \in CheckResults("liquidity"),
          b \in CheckResults("behavioral") :
            /\ checks' = <<v, c, t, l, b>>
            /\ assessment' = assess_financial_risks(checks')
    /\ UNCHANGED <<config, df, pc, analysis, analysis_results, opportunities, spending_trends,
                   raw_data, forecasts>>

NextRisk == AssessFinancialRisks

SpecRisk == InitRisk /\ [][NextRisk]_vars

(***************************************************************************)
(* The analyses of DailyWorkflowAnalyzer that the risk checks read         *)
(* (daily_workflow.py), and the checks themselves.                         *)
(***************************************************************************)
\* A pandas Timestamp: the calendar day (day 1 is a Monday) and the hour.
Timestamp(day, hour) == [day |-> day, hour |-> hour]

\* Date.dt.weekday: Monday is 0, Sunday is 6
Weekday(date) == (date.day - 1) % 7

\* The keys of groupby(Date.dt.date): the calendar days present
DaysOf(frame) == {frame[i].Date.day : i \in DOMAIN frame}

\* frame[frame['Date'].dt.date == day]
RowsOfDay(frame, day) == SelectSeq(frame, LAMBDA r : r.Date.day = day)

\* frame['Amount'].sum()
RECURSIVE SumAmount(_)
SumAmount(frame) ==
    IF frame = <<>> THEN 0
    ELSE Head(frame).Amount + SumAmount(Tail(frame))

\* dict.get(key, default)
DictGetOr(d, key, default) == IF key \in DOMAIN d THEN d[key] ELSE default

\* int(x) of a fraction: the integer part, rounded toward zero
IntOf(f) ==
    IF f.num >= 0 THEN f.num \div f.den ELSE -((-f.num) \div f.den)

\* _analyze_cash_flow_health: money in cents, the ratio and the savings rate
\* (in percent) as fractions
_analyze_cash_flow_health(week_df) ==
    IF week_df = <<>> THEN [status |-> "insufficient_data"]
    ELSE
        LET expenses == ExpensesOf(week_df)
            income == SelectSeq(week_df, LAMBDA r : ~Is_Expense(r))
            total_expenses == SumAbsAmount(expenses)
            total_income == SumAmount(income)
            net_cash_flow == total_income - total_expenses
        IN  [weekly_expenses |-> total_expenses,
             weekly_income |-> total_income,
             net_cash_flow |-> net_cash_flow,
             expense_to_income_ratio |->
                 IF total_income > 0 THEN Frac(total_expenses, total_income)
                 ELSE Frac(0, 1),
             cash_flow_health |-> IF net_cash_flow > 0 THEN "Positive" ELSE "Negative",
             savings_rate |->
                 IF total_income > 0 THEN Frac(net_cash_flow * 100, total_income)
                 ELSE Frac(0, 1)]

\* What a check returns when it does not look further
NoRisk == [is_risk |-> FALSE, severity |-> 0, recommendations |-> <<>>]

\* _assess_spending_volatility.  The early returns are those of the source;
\* past them the check reports the standard deviation of the daily sums and
\* their coefficient of variation, which the model does not compute: the
\* result is any dict the check can return.
_assess_spending_volatility(frame) ==
    IF frame = <<>> \/ Len(frame) < 7 THEN {NoRisk}
    ELSE IF Cardinality(DaysOf(ExpensesOf(frame))) < 3 THEN {NoRisk}
    ELSE CheckResults("volatility")

\* category_totals.max()
RECURSIVE MaxSpent(_)
MaxSpent(category_totals) ==
    IF category_totals = <<>> THEN 0
    ELSE Max(Head(category_totals).spent, MaxSpent(Tail(category_totals)))

\* Variant of _assess_category_concentration that scales the share to 100
_assess_category_concentration_scale_100(frame) ==
    IF frame = <<>> THEN NoRisk
    ELSE
        LET expenses == ExpensesOf(frame)
            category_totals == CategorySpending(expenses)
            total_spending == SumAbsAmount(expenses)
        IN  IF total_spending = 0 THEN NoRisk
            ELSE
                LET max_percentage == Frac(MaxSpent(category_totals), total_spending)
                    is_concentrated == 10 * max_percentage.num > 4 * max_percentage.den
                    severity ==
                        Min(100, IntOf(Frac(max_percentage.num * 100, max_percentage.den)))
                IN  [is_risk |-> is_concentrated,
                     percentage |-> max_percentage,
                     severity |-> severity,
                     recommendations |->
                         IF is_concentrated
                         THEN <<"diversify", "review necessity", "stricter limits">>
                         ELSE <<>>]

\* _assess_category_concentration
_assess_category_concentration(frame) ==
    IF frame = <<>> THEN NoRisk
    ELSE
        LET expenses == ExpensesOf(frame)
            category_totals == CategorySpending(expenses)
            total_spending == SumAbsAmount(expenses)
        IN  IF total_spending = 0 THEN NoRisk
            ELSE
                LET max_percentage == Frac(MaxSpent(category_totals), total_spending)
                    \* max_percentage > 0.4
                    is_concentrated == 10 * max_percentage.num > 4 * max_percentage.den
                    severity ==
                        Min(100, IntOf(Frac(max_percentage.num * 150, max_percentage.den)))
                IN  [is_risk |-> is_concentrated,
                     percentage |-> max_percentage,
                     severity |-> severity,
                     recommendations |->
                         IF is_concentrated
                         THEN <<"diversify", "review necessity", "stricter limits">>
                         ELSE <<>>]

\* f + g
FracAdd(f, g) == Frac(f.num * g.den + g.num * f.den, f.den * g.den)

\* The line the trend check recommends for a deteriorating category
AddressLine(category) ==
    CASE category = "Food & Dining" -> "address Food & Dining"
      [] category = "Shopping" -> "address Shopping"
      [] category = "Entertainment" -> "address Entertainment"
      [] category = "Transportation" -> "address Transportation"
      [] OTHER -> "address other"

\* total_negative_slope: the slopes (cents per day) of the kept entries, added
RECURSIVE SumSlopes(_)
SumSlopes(entries) ==
    IF entries = <<>> THEN Frac(0, 1)
    ELSE FracAdd(Head(entries).trend_slope, SumSlopes(Tail(entries)))

\* _assess_spending_trends.  category_trends is the dict of the trend
\* analysis, as the sequence of its entries in insertion order; a slope of
\* 10 (dollars per day) is 1000 here.
_assess_spending_trends(results) ==
    LET trend_analysis == DictGetOr(results, "trend_analysis", <<>>)
        category_trends == DictGetOr(trend_analysis, "category_trends", <<>>)
        deteriorating_categories ==
            SelectSeq(category_trends,
                      LAMBDA t : t.trend_direction = "increasing"
                                 /\ FracGt(t.trend_slope, 1000))
        total_negative_slope == SumSlopes(deteriorating_categories)
        is_risk == Len(deteriorating_categories) >= 2 \/ FracGt(total_negative_slope, 5000)
        severity ==
            Min(100, IntOf(Frac(total_negative_slope.num, total_negative_slope.den * 100)))
    IN  [is_risk |-> is_risk,
         deteriorating |-> Len(deteriorating_categories),
         severity |-> severity,
         recommendations |->
             IF is_risk
             THEN [i \in 1..Min(3, Len(deteriorating_categories)) |->
                       AddressLine(deteriorating_categories[i].category)]
                  \o <<"trend alerts", "monthly review">>
             ELSE <<>>]

\* Variant of _assess_liquidity_risk that scales the excess over 0.9
_assess_liquidity_risk_over_trigger(results) ==
    LET cash_flow == DictGetOr(results, "cash_flow_health", <<>>)
        net_flow == DictGetOr(cash_flow, "net_cash_flow", 0)
        expense_ratio == DictGetOr(cash_flow, "expense_to_income_ratio", Frac(0, 1))
        negative_cash_flow == net_flow < 0
        high_expense_ratio == 10 * expense_ratio.num > 9 * expense_ratio.den
        is_risk == negative_cash_flow \/ high_expense_ratio
        excess == IntOf(Frac(100 * expense_ratio.num - 90 * expense_ratio.den,
                             expense_ratio.den))
        severity == (IF negative_cash_flow THEN 50 ELSE 0)
                    + (IF high_expense_ratio THEN excess ELSE 0)
    IN  [is_risk |-> is_risk,
         severity |-> Min(100, severity),
         recommendations |->
             IF is_risk
             THEN <<"reduce expenses", "emergency fund", "track cash flow", "target ratio">>
             ELSE <<>>]

\* _assess_liquidity_risk
_assess_liquidity_risk(results) ==
    LET cash_flow == DictGetOr(results, "cash_flow_health", <<>>)
        net_flow == DictGetOr(cash_flow, "net_cash_flow", 0)
        expense_ratio == DictGetOr(cash_flow, "expense_to_income_ratio", Frac(0, 1))
        negative_cash_flow == net_flow < 0
        \* expense_ratio > 0.9
        high_expense_ratio == 10 * expense_ratio.num > 9 * expense_ratio.den
        is_risk == negative_cash_flow \/ high_expense_ratio
        \* int((expense_ratio - 0.7) * 100)
        excess == IntOf(Frac(100 * expense_ratio.num - 70 * expense_ratio.den,
                             expense_ratio.den))
        severity == (IF negative_cash_flow THEN 50 ELSE 0)
                    + (IF high_expense_ratio THEN excess ELSE 0)
    IN  [is_risk |-> is_risk,
         severity |-> Min(100, severity),
         recommendations |->
             IF is_risk
             THEN <<"reduce expenses", "emergency fund", "track cash flow", "target ratio">>
             ELSE <<>>]

\* _assess_behavioral_patterns
_assess_behavioral_patterns(frame) ==
    IF frame = <<>> THEN NoRisk
    ELSE
        LET expenses == ExpensesOf(frame)
            weekend_spending ==
                SumAbsAmount(SelectSeq(expenses, LAMBDA r : Weekday(r.Date) >= 5))
            weekday_spending ==
                SumAbsAmount(SelectSeq(expenses, LAMBDA r : Weekday(r.Date) < 5))
            \* weekend_ratio > 0.4, looked at only when both sums are positive
            weekend_pattern ==
                /\ weekend_spending > 0
                /\ weekday_spending > 0
                /\ 10 * weekend_spending > 4 * (weekend_spending + weekday_spending)
            late_night_transactions ==
                Len(SelectSeq(expenses, LAMBDA r : r.Date.hour >= 22 \/ r.Date.hour <= 6))
            \* late_night_transactions > len(expenses) * 0.2
            late_night_pattern == 5 * late_night_transactions > Len(expenses)
            days == DaysOf(expenses)
            high_transaction_days ==
                Cardinality({d \in days : Len(RowsOfDay(expenses, d)) > 5})
            \* high_transaction_days > len(daily_transaction_counts) * 0.3
            impulse_pattern == 10 * high_transaction_days > 3 * Cardinality(days)
            risky_patterns ==
                (IF weekend_pattern THEN <<"weekend">> ELSE <<>>)
                \o (IF late_night_pattern THEN <<"late night">> ELSE <<>>)
                \o (IF impulse_pattern THEN <<"multiple daily">> ELSE <<>>)
            severity == (IF weekend_pattern THEN 30 ELSE 0)
                        + (IF late_night_pattern THEN 20 ELSE 0)
                        + (IF impulse_pattern THEN 25 ELSE 0)
            is_risk == Len(risky_patterns) > 0
        IN  [is_risk |-> is_risk,
             pattern |-> risky_patterns,
             severity |-> Min(100, severity),
             recommendations |->
                 IF is_risk
                 THEN <<"waiting period", "spending apps", "shopping times", "review triggers">>
                 ELSE <<>>]

(***************************************************************************)
(* Inputs of a risk assessment: a transaction batch and the analyses.      *)
(***************************************************************************)
\* n expense rows of one category, amount (cents), day and hour
Block(cat, amount, day, hour, n) ==
    [i \in 1..n |-> Row(cat, -amount, Timestamp(day, hour))]

\* At most one expense of a category on a day at noon; amount 0 is no row
Single(cat, amount, day) == Block(cat, amount, day, 12, IF amount = 0 THEN 0 ELSE 1)

\* One income row, or none for amount 0
IncomeRow(amount) ==
    IF amount = 0 THEN <<>> ELSE <<Row("Income", amount, Timestamp(1, 9))>>

\* Batches of up to three categories: shares of 0.39 (3900 of 10000), 0.4
\* (4000 of 10000), 0.45 (4500 of 10000), one or two categories only, income
\* only, and the empty batch.  The third category is spent on a Saturday.
ConcentrationBatches ==
    {Single("Food & Dining", a1, 1) \o Single("Shopping", a2, 2)
        \o Single("Transportation", a3, 6) :
        a1 \in {0, 3900, 4000, 4500}, a2 \in {0, 3000, 3100},
        a3 \in {0, 2000, 2500, 3000}}
    \cup {IncomeRow(50000) \o Single("Food & Dining", a1, 1) \o Single("Shopping", a2, 2) :
            a1 \in {0, 4500}, a2 \in {0, 3000}}

\* Batches of equal expenses: n1 on a Monday at noon, at most one at another
\* hour of that Monday, one on each of the k following weekdays, and on the
\* Saturday none, two at noon or six at 23:00.
BehavioralBatches ==
    {Block("Entertainment", 1000, 1, 12, n1) \o Block("Entertainment", 1000, 1, hl, nl)
        \o [i \in 1..k |-> Row("Shopping", -1000, Timestamp(1 + i, 12))]
        \o Block("Entertainment", 1000, 6, w[2], w[1]) :
        n1 \in {0, 4, 6}, hl \in {0, 6, 7, 22}, nl \in {0, 1}, k \in {0, 3},
        w \in {<<0, 12>>, <<2, 12>>, <<6, 23>>}}

\* Batches as the retriever makes them from date-only cells: every
\* timestamp at midnight, n expenses on a Monday and m on the Tuesday
DateOnlyBatches ==
    {IncomeRow(inc) \o Block("Food & Dining", 1000, 1, 0, n) \o Block("Shopping", 1500, 2, 0, m) :
        inc \in {0, 50000}, n \in {0, 1, 3}, m \in {0, 2}}

RiskBatches == ConcentrationBatches \cup BehavioralBatches \cup DateOnlyBatches

\* A week of at most one income and one expense row
CashWeek(inc, exp) == IncomeRow(inc) \o Single("Shopping", exp, 2)

\* The cash-flow results of weeks with income 0, 100 or 500 and expenses up
\* to 600: ratios 0.9, 0.91, 0.955, 0.96, 1.12, 1.2 and 6 among them.
CashFlowSamples ==
    {_analyze_cash_flow_health(CashWeek(inc, exp)) :
        inc \in {0, 10000, 50000},
        exp \in {0, 9000, 9100, 11200, 47750, 48000, 60000}}

\* One entry of category_trends
TrendEntry(cat, direction, slope) ==
    [category |-> cat, trend_direction |-> direction, trend_slope |-> slope]

\* Dicts of category trends: none, one or two entries with slopes around 10
\* and sums around 50 dollars per day, entries that are not increasing, and
\* four steep ones.
TrendSamples ==
    {a \o b :
        a \in {<<>>, <<TrendEntry("Food & Dining", "stable", Frac(2000, 1))>>}
              \cup {<<TrendEntry("Food & Dining", "increasing", sl)>> :
                       sl \in {Frac(1000, 1), Frac(1001, 1), Frac(2560, 1), Frac(4500, 1),
                               Frac(9001, 2), Frac(5000, 1), Frac(5001, 1)}},
        b \in {<<>>, <<TrendEntry("Shopping", "increasing", Frac(3000, 1))>>,
               <<TrendEntry("Shopping", "decreasing", Frac(-3000, 1))>>}}
    \cup {a \o b \o <<TrendEntry("Entertainment", "increasing", Frac(3000, 1)),
                       TrendEntry("Transportation", "increasing", Frac(3000, 1))>> :
            a \in {<<>>, <<TrendEntry("Food & Dining", "increasing", Frac(5001, 1))>>},
            b \in {<<>>, <<TrendEntry("Shopping", "increasing", Frac(3000, 1))>>}}

\* analysis_results: both analyses present, or the cash-flow one missing
AnalysisSamples ==
    {[trend_analysis |-> [category_trends |-> t], cash_flow_health |-> c] :
        t \in TrendSamples, c \in CashFlowSamples}
    \cup {[trend_analysis |-> [category_trends |-> t]] : t \in TrendSamples}

\* One assessment of a batch with its analyses.
InitOfficer ==
    /\ config = DefaultConfig
    /\ df \in RiskBatches
    /\ pc = "loading"
    /\ analysis = NoAnalysis
    /\ checks = <<>>
    /\ assessment = NoAssessment
    /\ analysis_results \in AnalysisSamples
    /\ opportunities = <<>>
    /\ spending_trends = NoSpendingTrends
    /\ raw_data = <<>>
    /\ forecasts = <<>>

\* assess_financial_risks(transaction_data, analysis_results): the five checks
\* in order, then the composition.
RiskOfficerAssess ==
    /\ checks = <<>>
    /\ \E v \in _assess_spending_volatility(df) :
        /\ checks' = <<v,
                       _assess_category_concentration(df),
                       _assess_spending_trends(analysis_results),
                       _assess_liquidity_risk(analysis_results),
                       _assess_behavioral_patterns(df)>>
        /\ assessment' = assess_financial_risks(checks')
    /\ UNCHANGED <<config, df, pc, analysis, analysis_results, opportunities, spending_trends,
                   raw_data, forecasts>>

NextOfficer == RiskOfficerAssess

SpecOfficer == InitOfficer /\ [][NextOfficer]_vars

(***************************************************************************)
(* GrowthStrategistAnalysis (specialized_ai_roles.py)                      *)
(*                                                                         *)
(* potential_value is kept in hundredths of a cent, so that 30% of four    *)
(* times an amount in cents is the amount times 120, and 200 (dollars) is  *)
(* 2000000.                                                                *)
(***************************************************************************)
\* A row with its Description column
Transaction(desc, cat, amount, date) ==
    [Description |-> desc, Category |-> cat, Amount |-> amount, Date |-> date]

\* Descriptions in the order pandas' groupby sorts them
VendorOrder == <<"Amazon", "Corner Cafe", "Netflix", "Uber">>

GrowthOpportunity(category, opportunity_type, potential_value, effort_level, timeframe, action_items) ==
    [category |-> category,
     opportunity_type |-> opportunity_type,
     potential_value |-> potential_value,
     effort_level |-> effort_level,
     timeframe |-> timeframe,
     action_items |-> action_items]

\* frame['Abs_Amount'] squared and summed
RECURSIVE SumSquares(_)
SumSquares(frame) ==
    IF frame = <<>> THEN 0
    ELSE Abs_Amount(Head(frame)) * Abs_Amount(Head(frame)) + SumSquares(Tail(frame))

\* frame['Abs_Amount'].max()
RECURSIVE MaxAbsAmount(_)
MaxAbsAmount(frame) ==
    IF frame = <<>> THEN 0
    ELSE Max(Abs_Amount(Head(frame)), MaxAbsAmount(Tail(frame)))

\* ('Abs_Amount', 'mean') after .round(2): the mean in whole cents
RoundedMean(rows) == FormatNoDecimals(Frac(SumAbsAmount(rows), Len(rows)))

\* ('Abs_Amount', 'std') after .round(2), for two rows or more: the sample
\* standard deviation in whole cents, the r with
\*   (r - 1/2)^2 <= variance < (r + 1/2)^2
\* where variance = (n * sum of squares - square of sum) / (n * (n - 1)).
RoundedStd(rows) ==
    LET n == Len(rows)
        q == n * SumSquares(rows) - SumAbsAmount(rows) * SumAbsAmount(rows)
    IN  CHOOSE r \in 0..MaxAbsAmount(rows) :
            /\ r = 0 \/ (2 * r - 1) * (2 * r - 1) * n * (n - 1) <= 4 * q
            /\ 4 * q < (2 * r + 1) * (2 * r + 1) * n * (n - 1)

\* expenses[expenses['Description'] == vendor]
RowsOfVendor(frame, vendor) == SelectSeq(frame, LAMBDA r : r.Description = vendor)

\* count >= 2 and std_dev < (mean_amount * 0.1)
IsPotentialSubscription(rows) ==
    Len(rows) >= 2 /\ 10 * RoundedStd(rows) < RoundedMean(rows)

\* _identify_subscription_optimization
_identify_subscription_optimization(frame) ==
    IF frame = <<>> THEN <<>>
    ELSE
        LET expenses == ExpensesOf(frame)
            recurring_vendors ==
                SelectSeq(VendorOrder,
                          LAMBDA v : \E i \in DOMAIN expenses : expenses[i].Description = v)
            potential_subscriptions ==
                SelectSeq(recurring_vendors,
                          LAMBDA v : IsPotentialSubscription(RowsOfVendor(expenses, v)))
        IN  [i \in DOMAIN potential_subscriptions |->
                GrowthOpportunity("Subscription Management", "optimization",
                    RoundedMean(RowsOfVendor(expenses, potential_subscriptions[i])) * 120,
                    "low", "immediate",
                    <<potential_subscriptions[i], "compare pricing", "annual billing",
                      "calendar reminder">>)]

\* sort_values(ascending=False) of the category sums: insertion from the
\* left, equal sums staying in index order
RECURSIVE SortBySpentDesc(_)
SortBySpentDesc(category_totals) ==
    IF category_totals = <<>> THEN <<>>
    ELSE LET front == SortBySpentDesc(SubSeq(category_totals, 1, Len(category_totals) - 1))
             last == category_totals[Len(category_totals)]
             before == SelectSeq(front, LAMBDA c : c.spent >= last.spent)
             after == SelectSeq(front, LAMBDA c : c.spent < last.spent)
         IN  before \o <<last>> \o after

\* f"{category} Efficiency"
EfficiencyLabel(category) ==
    CASE category = "Shopping" -> "Shopping Efficiency"
      [] category = "Food & Dining" -> "Food & Dining Efficiency"
      [] category = "Entertainment" -> "Entertainment Efficiency"

\* _identify_efficiency_improvements
_identify_efficiency_improvements(frame) ==
    IF frame = <<>> THEN <<>>
    ELSE
        LET expenses == ExpensesOf(frame)
            category_spending == SortBySpentDesc(CategorySpending(expenses))
            top == SubSeq(category_spending, 1, Min(3, Len(category_spending)))
        IN  Flatten([i \in DOMAIN top |->
                IF top[i].category \in {"Shopping", "Food & Dining", "Entertainment"}
                THEN <<GrowthOpportunity(EfficiencyLabel(top[i].category), "savings",
                                         top[i].spent * 20, "medium", "short_term",
                                         <<"monthly budget", "cash-back cards",
                                           "discount apps", "waiting period">>)>>
                ELSE IF top[i].category = "Transportation"
                THEN <<GrowthOpportunity("Transportation Optimization", "optimization",
                                         top[i].spent * 25, "medium", "short_term",
                                         <<"compare rideshare", "subscription services",
                                           "plan trips", "carpooling">>)>>
                ELSE <<>>])

\* Variant of _identify_automation_opportunities that admits a net flow of
\* exactly 100
_identify_automation_opportunities_from_100(results) ==
    LET cash_flow == DictGetOr(results, "cash_flow_health", <<>>)
        net_flow == DictGetOr(cash_flow, "net_cash_flow", 0)
    IN  (IF net_flow >= 10000
         THEN <<GrowthOpportunity("Automated Savings", "automation", net_flow * 600,
                                  "low", "immediate",
                                  <<"automatic transfer", "high-yield savings",
                                    "automated investment", "automatic bill pay">>)>>
         ELSE <<>>)
        \o <<GrowthOpportunity("Budget Automation", "automation", 2000000,
                               "low", "immediate",
                               <<"spending alerts", "budgeting apps",
                                 "automate categorization", "weekly summary">>)>>

\* _identify_automation_opportunities: 50% of the net flow, times 12
_identify_automation_opportunities(results) ==
    LET cash_flow == DictGetOr(results, "cash_flow_health", <<>>)
        net_flow == DictGetOr(cash_flow, "net_cash_flow", 0)
    IN  (IF net_flow > 10000
         THEN <<GrowthOpportunity("Automated Savings", "automation", net_flow * 600,
                                  "low", "immediate",
                                  <<"automatic transfer", "high-yield savings",
                                    "automated investment", "automatic bill pay">>)>>
         ELSE <<>>)
        \o <<GrowthOpportunity("Budget Automation", "automation", 2000000,
                               "low", "immediate",
                               <<"spending alerts", "budgeting apps",
                                 "automate categorization", "weekly summary">>)>>

\* Date.dt.day_name(), and the weekdays in the alphabetical order of their
\* names (Friday, Monday, Saturday, Sunday, Thursday, Tuesday, Wednesday)
DayName(weekday) ==
    <<"Monday", "Tuesday", "Wednesday", "Thursday", "Friday", "Saturday", "Sunday">>[weekday + 1]
DayNameOrder == <<4, 0, 5, 6, 3, 1, 2>>

\* _identify_behavioral_optimizations
_identify_behavioral_optimizations(frame) ==
    IF frame = <<>> THEN <<>>
    ELSE
        LET expenses == ExpensesOf(frame)
            DaySum(w) == SumAbsAmount(SelectSeq(expenses, LAMBDA r : Weekday(r.Date) = w))
            index == SelectSeq(DayNameOrder,
                               LAMBDA w : \E i \in DOMAIN expenses : Weekday(expenses[i].Date) = w)
        IN  IF index = <<>> THEN <<>>
            ELSE
                LET highest_amount ==
                        CHOOSE m \in {DaySum(index[i]) : i \in DOMAIN index} :
                            \A i \in DOMAIN index : DaySum(index[i]) <= m
                    \* idxmax: the first label that holds the maximum
                    highest_day ==
                        index[CHOOSE i \in DOMAIN index :
                                /\ DaySum(index[i]) = highest_amount
                                /\ \A j \in 1..(i - 1) : DaySum(index[j]) < highest_amount]
                IN  \* highest_amount > day_patterns.mean() * 1.5
                    IF 2 * Len(index) * highest_amount > 3 * SumAbsAmount(expenses)
                    THEN <<GrowthOpportunity("Spending Pattern Optimization", "optimization",
                                             highest_amount * 120, "medium", "short_term",
                                             <<DayName(highest_day), "day limit",
                                               "shopping lists", "cart delays">>)>>
                    ELSE <<>>

\* _identify_strategic_opportunities
_identify_strategic_opportunities(results) ==
    LET cash_flow == DictGetOr(results, "cash_flow_health", <<>>)
        savings_rate == DictGetOr(cash_flow, "savings_rate", Frac(0, 1))
        net_flow == DictGetOr(cash_flow, "net_cash_flow", 0)
    IN  (IF FracLess(savings_rate, Frac(20, 1))
         THEN <<GrowthOpportunity("Savings Rate Improvement", "optimization", 10000000,
                                  "high", "long_term",
                                  <<"increase savings rate", "largest categories",
                                    "income", "zero-based budgeting">>)>>
         ELSE <<>>)
        \o (IF net_flow > 50000
            THEN <<GrowthOpportunity("Investment Growth", "automation", net_flow * 84,
                                     "medium", "long_term",
                                     <<"index funds", "tax-advantaged accounts",
                                       "robo-advisor", "rebalance">>)>>
            ELSE <<>>)

\* Variant of SortByValueDesc that keeps one opportunity per category label
RECURSIVE SortByValueDesc_unique(_)
SortByValueDesc_unique(ops) ==
    IF ops = <<>> THEN <<>>
    ELSE LET front == SortByValueDesc_unique(SubSeq(ops, 1, Len(ops) - 1))
             last == ops[Len(ops)]
             before == SelectSeq(front, LAMBDA o : o.potential_value >= last.potential_value)
             after == SelectSeq(front, LAMBDA o : o.potential_value < last.potential_value)
         IN  IF \E i \in DOMAIN front : front[i].category = last.category
             THEN front
             ELSE before \o <<last>> \o after

\* opportunities.sort(key=lambda x: x.potential_value, reverse=True): the
\* sort is stable, equal values keep the order of the list
RECURSIVE SortByValueDesc(_)
SortByValueDesc(ops) ==
    IF ops = <<>> THEN <<>>
    ELSE LET front == SortByValueDesc(SubSeq(ops, 1, Len(ops) - 1))
             last == ops[Len(ops)]
             before == SelectSeq(front, LAMBDA o : o.potential_value >= last.potential_value)
             after == SelectSeq(front, LAMBDA o : o.potential_value < last.potential_value)
         IN  before \o <<last>> \o after

\* identify_growth_opportunities
identify_growth_opportunities(transaction_data, results) ==
    SortByValueDesc(_identify_subscription_optimization(transaction_data)
                    \o _identify_efficiency_improvements(transaction_data)
                    \o _identify_automation_opportunities(results)
                    \o _identify_behavioral_optimizations(transaction_data)
                    \o _identify_strategic_opportunities(results))

\* The expenses of one vendor: one row per amount, a week apart from day on
VendorRows(desc, cat, amounts, day) ==
    [i \in DOMAIN amounts |->
        Transaction(desc, cat, -amounts[i], Timestamp(day + 7 * (i - 1), 12))]

\* Batches of up to four vendors.  Netflix: a single charge, three equal
\* charges of 12.99, charges whose mean is not a whole cent, two pairs close
\* to the 10% line (1.19 and 1.37; 1.04 and 1.20) and a pair far from it.
GrowthBatches ==
    {VendorRows("Netflix", "Subscriptions", a, 1) \o VendorRows("Uber", "Transportation", b, 2)
        \o VendorRows("Corner Cafe", "Food & Dining", c, 6)
        \o VendorRows("Amazon", "Shopping", d, 3) :
        a \in {<<>>, <<1299>>, <<1299, 1299, 1299>>, <<1000, 1000, 1001>>, <<119, 137>>,
               <<104, 120>>, <<500, 1300>>},
        b \in {<<>>, <<2500>>, <<2500, 2500>>},
        c \in {<<>>, <<1200>>, <<9000>>},
        d \in {<<>>, <<300>>, <<20000>>}}

\* analysis_results with the cash flow of a week (net flows of 60, exactly
\* 100, 101, 600 among them; savings rates of exactly 20% and around it), or
\* without cash-flow results
GrowthAnalyses ==
    {[cash_flow_health |-> _analyze_cash_flow_health(CashWeek(inc, exp))] :
        inc \in {0, 50000, 100000}, exp \in {0, 39900, 40000, 44000, 48000}}
    \cup {[trend_analysis |-> [category_trends |-> <<>>]]}

InitGrowth ==
    /\ config = DefaultConfig
    /\ df \in GrowthBatches
    /\ pc = "loading"
    /\ analysis = NoAnalysis
    /\ checks = <<>>
    /\ assessment = NoAssessment
    /\ analysis_results \in GrowthAnalyses
    /\ opportunities = <<>>
    /\ spending_trends = NoSpendingTrends
    /\ raw_data = <<>>
    /\ forecasts = <<>>

\* identify_growth_opportunities(transaction_data, analysis_results); the
\* list it returns is never empty
IdentifyGrowthOpportunities ==
    /\ opportunities = <<>>
    /\ opportunities' = identify_growth_opportunities(df, analysis_results)
    /\ UNCHANGED <<config, df, pc, analysis, checks, assessment, analysis_results,
                   spending_trends,
                   raw_data, forecasts>>

NextGrowth == IdentifyGrowthOpportunities

SpecGrowth == InitGrowth /\ [][NextGrowth]_vars

(***************************************************************************)
(* Trend direction: DailyWorkflowAnalyzer._analyze_trends_and_variance     *)
(* (per category) and OverspendingAnalyzer.analyze_spending_trends (all    *)
(* expenses).  Slopes are exact fractions in cents per day.                *)
(***************************************************************************)
\* The day before the run, the last day of the week window
Yesterday == 3

\* The keys of groupby(frame['Date'].dt.date): the dates present, ascending
RECURSIVE SortedDays(_)
SortedDays(S) ==
    IF S = {} THEN <<>>
    ELSE LET first == CHOOSE d \in S : \A e \in S : d <= e
         IN  <<first>> \o SortedDays(S \ {first})

\* frame.groupby(frame['Date'].dt.date)['Abs_Amount'].sum()
DailySpending(frame) ==
    LET dates == SortedDays(DaysOf(frame))
    IN  [i \in DOMAIN dates |->
            [date |-> dates[i], amount |-> SumAbsAmount(RowsOfDay(frame, dates[i]))]]

\* The sum of the amounts of a daily series
RECURSIVE SumSeries(_)
SumSeries(series) ==
    IF series = <<>> THEN 0 ELSE Head(series).amount + SumSeries(Tail(series))

\* The sum of x * y over the points (0, y1), (1, y2), ...
RECURSIVE SumXY(_)
SumXY(series) ==
    IF series = <<>> THEN 0
    ELSE SumXY(SubSeq(series, 1, Len(series) - 1))
         + (Len(series) - 1) * series[Len(series)].amount

\* The sums of x and of x * x over x = 0 .. n - 1
SumX(n) == (n * (n - 1)) \div 2
SumXX(n) == (n * (n - 1) * (2 * n - 1)) \div 6

\* np.polyfit(range(len(series)), series.values, 1)[0]: the slope of the
\* least-squares line, for a series of at least two points
PolyfitSlope(series) ==
    LET n == Len(series)
    IN  Frac(n * SumXY(series) - SumX(n) * SumSeries(series),
             n * SumXX(n) - SumX(n) * SumX(n))

\* f < k for an integer k
FracLt(f, k) == f.num < k * f.den

\* expenses['Category'].unique(): the categories in order of first appearance
RECURSIVE Unique(_)
Unique(frame) ==
    IF frame = <<>> THEN <<>>
    ELSE LET front == Unique(SubSeq(frame, 1, Len(frame) - 1))
             last == frame[Len(frame)].Category
         IN  IF \E i \in DOMAIN front : front[i] = last THEN front
             ELSE Append(front, last)

\* 'increasing' if trend_slope > 1 else 'decreasing' if trend_slope < -1
\* else 'stable'
CategoryTrendDirection(trend_slope) ==
    IF FracGt(trend_slope, 100) THEN "increasing"
    ELSE IF FracLt(trend_slope, -100) THEN "decreasing"
    ELSE "stable"

\* The category loop of _analyze_trends_and_variance: an entry for each
\* category with expenses on more than one day
RECURSIVE CategoryTrendsOf(_, _)
CategoryTrendsOf(expenses, categories) ==
    IF categories = <<>> THEN <<>>
    ELSE LET category == Head(categories)
             daily_cat_spending == DailySpending(RowsOfCategory(expenses, category))
             rest == CategoryTrendsOf(expenses, Tail(categories))
         IN  IF Len(daily_cat_spending) > 1
             THEN <<TrendEntry(category,
                               CategoryTrendDirection(PolyfitSlope(daily_cat_spending)),
                               PolyfitSlope(daily_cat_spending))>> \o rest
             ELSE rest

\* _analyze_trends_and_variance(daily_df, week_df).  The variance of an entry
\* and the volatility_score (a standard deviation) are not represented.
_analyze_trends_and_variance(daily_df, week_df) ==
    IF week_df = <<>> THEN [status |-> "insufficient_data"]
    ELSE LET expenses == ExpensesOf(week_df)
             days == Len(DailySpending(expenses))
             total == SumAbsAmount(expenses)
             yesterday_total == IF daily_df # <<>> THEN SumAbsAmount(ExpensesOf(daily_df)) ELSE 0
         IN  [weekly_average_daily |-> Frac(total, days),
              yesterday_vs_average |->
                  [amount |-> yesterday_total,
                   difference |-> Frac(yesterday_total * days - total, days),
                   percentage_change |->
                       IF total > 0 /\ days > 0
                       THEN Frac((yesterday_total * days - total) * 100, total)
                       ELSE Frac(0, 1)],
              category_trends |-> CategoryTrendsOf(expenses, Unique(expenses))]

\* OverspendingAnalyzer._calculate_trend_direction(spending_series)
_calculate_trend_direction(spending_series) ==
    IF Len(spending_series) < 2 THEN "Insufficient Data"
    ELSE LET slope == PolyfitSlope(spending_series)
         IN  IF FracGt(slope, 500) THEN "Increasing"
             ELSE IF FracLt(slope, -500) THEN "Decreasing"
             ELSE "Stable"

\* The first day of a series with the largest (idxmax) or smallest (idxmin)
\* amount
IdxMax(series) ==
    series[CHOOSE i \in DOMAIN series :
               /\ \A j \in DOMAIN series : series[j].amount <= series[i].amount
               /\ \A j \in 1..(i - 1) : series[j].amount < series[i].amount]
IdxMin(series) ==
    series[CHOOSE i \in DOMAIN series :
               /\ \A j \in DOMAIN series : series[j].amount >= series[i].amount
               /\ \A j \in 1..(i - 1) : series[j].amount > series[i].amount]

\* analyze_spending_trends(df).  For a batch without expenses idxmax() of
\* the empty series raises ValueError.  The variance and the consistency
\* score are not represented.
analyze_spending_trends(frame) ==
    IF frame = <<>> THEN <<>>
    ELSE IF ExpensesOf(frame) = <<>> THEN [raised |-> "ValueError"]
    ELSE LET daily_spending == DailySpending(ExpensesOf(frame))
         IN  [period_days |-> Len(daily_spending),
              average_daily_spending |-> Frac(SumSeries(daily_spending), Len(daily_spending)),
              highest_spending_day |-> IdxMax(daily_spending),
              lowest_spending_day |-> IdxMin(daily_spending),
              trend_direction |-> _calculate_trend_direction(daily_spending)]

\* Weeks in the order the retriever delivers them, latest row first: Food &
\* Dining on up to three days, with differences of 1, 1.01, 3, 5 and 5.01
\* dollars between the days in both directions, Shopping on one day, and an
\* income row.  The empty week is among them.
TrendBatches ==
    {LET expenses == Single("Food & Dining", a3, 3) \o Single("Shopping", s, 2)
                     \o Single("Food & Dining", a2, 2) \o Single("Food & Dining", a1, 1)
     IN  IF expenses = <<>> THEN <<>> ELSE expenses \o IncomeRow(inc) :
        a1 \in {0, 1000},
        a2 \in {0, 499, 500, 899, 900, 1100, 1101, 1300, 1500, 1501},
        a3 \in {0, 1200, 1202},
        s \in {0, 2000},
        inc \in {0, 50000}}

InitTrend ==
    /\ config = DefaultConfig
    /\ df \in TrendBatches
    /\ pc = "loading"
    /\ analysis = NoAnalysis
    /\ checks = <<>>
    /\ assessment = NoAssessment
    /\ analysis_results = <<>>
    /\ opportunities = <<>>
    /\ spending_trends = NoSpendingTrends
    /\ raw_data = <<>>
    /\ forecasts = <<>>

\* 'trend_analysis': self._analyze_trends_and_variance(yesterday_data, week_data)
AnalyzeTrendsAndVariance ==
    /\ "trend_analysis" \notin DOMAIN analysis_results
    /\ analysis_results' =
           [trend_analysis |-> _analyze_trends_and_variance(RowsOfDay(df, Yesterday), df)]
    /\ UNCHANGED <<config, df, pc, analysis, checks, assessment, opportunities, spending_trends,
                   raw_data, forecasts>>

\* analyze_spending_trends(df)
AnalyzeSpendingTrends ==
    /\ spending_trends = NoSpendingTrends
    /\ spending_trends' = analyze_spending_trends(df)
    /\ UNCHANGED <<config, df, pc, analysis, checks, assessment, analysis_results, opportunities,
                   raw_data, forecasts>>

NextTrend == AnalyzeTrendsAndVariance \/ AnalyzeSpendingTrends

SpecTrend == InitTrend /\ [][NextTrend]_vars

(***************************************************************************)
(* DailyWorkflowAnalyzer._analyze_predictive_spend.  The method reads the  *)
(* clock: three times for days_in_period and days_remaining_in_month.      *)
(***************************************************************************)
\* The calls of _analyze_predictive_spend that are followed
MaxCalls == 2

\* The length of the month the run falls in
MonthLength == 30

\* The readings of datetime.now(): the day of the month, and whether the
\* clock moved on between the two readings of the expression for
\* days_in_period
Clock == [day : {1, 15, MonthLength}, ticked : BOOLEAN]

\* (datetime.now() - (datetime.now() - timedelta(days=30))).days: the first
\* reading minus the second plus 30 days, 29 whole days once the clock has
\* moved on between the readings
DaysInPeriod(now) == IF now.ticked THEN 29 ELSE 30

\* ((now.replace(day=1) + timedelta(days=32)).replace(day=1) - now).days at a
\* time of day after midnight
DaysRemainingInMonth(now) == MonthLength - now.day

\* The category loop of _analyze_predictive_spend; money in cents, the rates
\* as fractions
RECURSIVE CategoryForecasts(_, _, _)
CategoryForecasts(expenses, categories, days_in_period) ==
    IF categories = <<>> THEN <<>>
    ELSE LET category == Head(categories)
             cat_spending == SumAbsAmount(RowsOfCategory(expenses, category))
             budget_limit == DictGet(DAILY_BUDGET_LIMITS, category) * 30
         IN  <<[category |-> category,
                current_spend |-> cat_spending,
                daily_rate |-> Frac(cat_spending, days_in_period),
                projected_month_total |-> Frac(cat_spending * 30, days_in_period),
                budget_limit |-> budget_limit,
                projected_over_budget |->
                    IF budget_limit > 0
                    THEN Frac(cat_spending * 30 - budget_limit * days_in_period, days_in_period)
                    ELSE Frac(0, 1),
                will_exceed_budget |->
                    IF budget_limit > 0
                    THEN cat_spending * 30 > budget_limit * days_in_period
                    ELSE FALSE]>>
             \o CategoryForecasts(expenses, Tail(categories), days_in_period)

\* The categories of the forecasts that will exceed the budget
HighRiskCategories(category_forecasts) ==
    LET flagged == SelectSeq(category_forecasts, LAMBDA f : f.will_exceed_budget)
    IN  [i \in DOMAIN flagged |-> flagged[i].category]

\* _analyze_predictive_spend(month_df), called at the clock reading now
_analyze_predictive_spend(month_df, now) ==
    IF month_df = <<>> THEN [status |-> "insufficient_data"]
    ELSE LET expenses == ExpensesOf(month_df)
             days_in_period == DaysInPeriod(now)
             category_forecasts == CategoryForecasts(expenses, Unique(expenses), days_in_period)
         IN  [daily_spending_rate |-> Frac(SumAbsAmount(expenses), days_in_period),
              projected_month_total |-> Frac(SumAbsAmount(expenses) * 30, days_in_period),
              days_remaining_in_month |-> DaysRemainingInMonth(now),
              category_forecasts |-> category_forecasts,
              high_risk_categories |-> HighRiskCategories(category_forecasts)]

\* Months of expenses: Subscriptions (limit 10 a day) around 290 and 300,
\* Food & Dining (limit 50 a day) around 1500, Groceries (no limit), with or
\* without income.  The empty month is among them.
MonthBatches ==
    {LET expenses == Single("Subscriptions", a, 3) \o Single("Groceries", g, 2)
                     \o Single("Food & Dining", f, 1)
     IN  IF expenses = <<>> THEN IncomeRow(inc) ELSE expenses \o IncomeRow(inc) :
        a \in {0, 28900, 29000, 29001, 30000, 30001},
        g \in {0, 90000},
        f \in {0, 150000, 150001},
        inc \in {0, 50000}}

InitForecast ==
    /\ config = DefaultConfig
    /\ df \in MonthBatches
    /\ pc = "loading"
    /\ analysis = NoAnalysis
    /\ checks = <<>>
    /\ assessment = NoAssessment
    /\ analysis_results = <<>>
    /\ opportunities = <<>>
    /\ spending_trends = NoSpendingTrends
    /\ raw_data = <<>>
    /\ forecasts = <<>>

\* 'predictive_forecasting': self._analyze_predictive_spend(month_data), at
\* any time; a later call may fall on any day of a later month
AnalyzePredictiveSpend ==
    /\ Len(forecasts) < MaxCalls
    /\ \E now \in Clock :
           forecasts' = Append(forecasts, _analyze_predictive_spend(df, now))
    /\ UNCHANGED <<config, df, pc, analysis, checks, assessment, analysis_results,
                   opportunities, spending_trends, raw_data>>

NextForecast == AnalyzePredictiveSpend

SpecForecast == InitForecast /\ [][NextForecast]_vars

(***************************************************************************)
(* TransactionRetriever (transaction_retriever.py): process_transactions   *)
(* and _clean_dataframe.  The cells of the sheet are Python strings; they  *)
(* are sequences of characters here, so that stripping, lower-casing,      *)
(* substring search and number parsing are computed.                       *)
(***************************************************************************)
UpperCase ==
    <<"A", "B", "C", "D", "E", "F", "G", "H", "I", "J", "K", "L", "M",
      "N", "O", "P", "Q", "R", "S", "T", "U", "V", "W", "X", "Y", "Z">>
LowerCase ==
    <<"a", "b", "c", "d", "e", "f", "g", "h", "i", "j", "k", "l", "m",
      "n", "o", "p", "q", "r", "s", "t", "u", "v", "w", "x", "y", "z">>
Digits == <<"0", "1", "2", "3", "4", "5", "6", "7", "8", "9">>

\* str.lower()
Lower(chars) ==
    [i \in DOMAIN chars |->
        IF \E k \in DOMAIN UpperCase : UpperCase[k] = chars[i]
        THEN LowerCase[CHOOSE k \in DOMAIN UpperCase : UpperCase[k] = chars[i]]
        ELSE chars[i]]

\* str.strip(): without the leading and trailing blanks
RECURSIVE LStrip(_)
LStrip(chars) ==
    IF chars # <<>> /\ Head(chars) = " " THEN LStrip(Tail(chars)) ELSE chars
RECURSIVE RStrip(_)
RStrip(chars) ==
    IF chars # <<>> /\ chars[Len(chars)] = " "
    THEN RStrip(SubSeq(chars, 1, Len(chars) - 1)) ELSE chars
Strip(chars) == RStrip(LStrip(chars))

\* keyword in description
Contains(chars, keyword) ==
    \E i \in 1..(Len(chars) - Len(keyword) + 1) :
        SubSeq(chars, i, i + Len(keyword) - 1) = keyword

\* str.replace(old, '') for a single character, taken literally
Remove(chars, old) == SelectSeq(chars, LAMBDA c : c # old)

\* config.EXPENSE_CATEGORIES, in the order of the dict
EXPENSE_CATEGORIES ==
    <<
      [category |-> <<"F", "o", "o", "d", " ", "&", " ", "D", "i", "n", "i", "n", "g">>,
       keywords |->
         <<<<"r", "e", "s", "t", "a", "u", "r", "a", "n", "t">>,
           <<"f", "o", "o", "d">>,
           <<"d", "i", "n", "i", "n", "g">>,
           <<"u", "b", "e", "r", " ", "e", "a", "t", "s">>,
           <<"d", "o", "o", "r", "d", "a", "s", "h">>,
           <<"g", "r", "u", "b", "h", "u", "b">>,
           <<"s", "t", "a", "r", "b", "u", "c", "k", "s">>,
           <<"c", "o", "f", "f", "e", "e">>>>],
      [category |-> <<"T", "r", "a", "n", "s", "p", "o", "r", "t", "a", "t", "i", "o", "n">>,
       keywords |->
         <<<<"u", "b", "e", "r">>,
           <<"l", "y", "f", "t">>,
           <<"g", "a", "s">>,
           <<"p", "a", "r", "k", "i", "n", "g">>,
           <<"m", "e", "t", "r", "o">>,
           <<"b", "u", "s">>,
           <<"t", "a", "x", "i">>,
           <<"c", "a", "r">>>>],
      [category |-> <<"S", "h", "o", "p", "p", "i", "n", "g">>,
       keywords |->
         <<<<"a", "m", "a", "z", "o", "n">>,
           <<"t", "a", "r", "g", "e", "t">>,
           <<"w", "a", "l", "m", "a", "r", "t">>,
           <<"s", "h", "o", "p", "p", "i", "n", "g">>,
           <<"r", "e", "t", "a", "i", "l">>,
           <<"s", "t", "o", "r", "e">>>>],
      [category |-> <<"E", "n", "t", "e", "r", "t", "a", "i", "n", "m", "e", "n", "t">>,
       keywords |->
         <<<<"n", "e", "t", "f", "l", "i", "x">>,
           <<"s", "p", "o", "t", "i", "f", "y">>,
           <<"m", "o", "v", "i", "e">>,
           <<"t", "h", "e", "a", "t", "e", "r">>,
           <<"g", "a", "m", "i", "n", "g">>,
           <<"e", "n", "t", "e", "r", "t", "a", "i", "n", "m", "e", "n", "t">>>>],
      [category |-> <<"U", "t", "i", "l", "i", "t", "i", "e", "s">>,
       keywords |->
         <<<<"e", "l", "e", "c", "t", "r", "i", "c">>,
           <<"w", "a", "t", "e", "r">>,
           <<"i", "n", "t", "e", "r", "n", "e", "t">>,
           <<"p", "h", "o", "n", "e">>,
           <<"c", "a", "b", "l", "e">>,
           <<"u", "t", "i", "l", "i", "t", "y">>>>],
      [category |-> <<"H", "e", "a", "l", "t", "h", "c", "a", "r", "e">>,
       keywords |->
         <<<<"d", "o", "c", "t", "o", "r">>,
           <<"p", "h", "a", "r", "m", "a", "c", "y">>,
           <<"m", "e", "d", "i", "c", "a", "l">>,
           <<"h", "e", "a", "l", "t", "h">>,
           <<"h", "o", "s", "p", "i", "t", "a", "l">>,
           <<"d", "e", "n", "t", "a", "l">>>>],
      [category |-> <<"S", "u", "b", "s", "c", "r", "i", "p", "t", "i", "o", "n", "s">>,
       keywords |->
         <<<<"s", "u", "b", "s", "c", "r", "i", "p", "t", "i", "o", "n">>,
           <<"m", "o", "n", "t", "h", "l", "y">>,
           <<"a", "n", "n", "u", "a", "l">>,
           <<"p", "r", "e", "m", "i", "u", "m">>,
           <<"p", "l", "u", "s">>>>],
      [category |-> <<"M", "i", "s", "c", "e", "l", "l", "a", "n", "e", "o", "u", "s">>,
       keywords |->
         <<>>]>>

IsDigit(c) == \E k \in DOMAIN Digits : Digits[k] = c
AllDigits(chars) == \A i \in DOMAIN chars : IsDigit(chars[i])

\* int() of a sequence of digits
RECURSIVE DecimalValue(_)
DecimalValue(chars) ==
    IF chars = <<>> THEN 0
    ELSE DecimalValue(SubSeq(chars, 1, Len(chars) - 1)) * 10
         + (CHOOSE k \in DOMAIN Digits : Digits[k] = chars[Len(chars)]) - 1

NaN == [valid |-> FALSE, cents |-> 0]

\* pd.to_numeric(errors='coerce') of a cell holding a decimal number of at
\* most two decimals, in cents; NaN for a cell that is not a number
to_numeric(chars) ==
    LET signed == chars # <<>> /\ Head(chars) \in {"-", "+"}
        body == IF signed THEN Tail(chars) ELSE chars
        dots == {i \in DOMAIN body : body[i] = "."}
        dot == IF dots = {} THEN Len(body) + 1 ELSE CHOOSE i \in dots : TRUE
        whole == SubSeq(body, 1, dot - 1)
        decimals == SubSeq(body, dot + 1, Len(body))
        value == DecimalValue(whole) * 100
                 + (IF Len(decimals) = 1 THEN DecimalValue(decimals) * 10
                    ELSE DecimalValue(decimals))
    IN  IF /\ Cardinality(dots) <= 1
           /\ AllDigits(whole) /\ AllDigits(decimals)
           /\ Len(whole) + Len(decimals) >= 1
           /\ Len(decimals) <= 2
        THEN [valid |-> TRUE, cents |-> IF signed /\ Head(chars) = "-" THEN -value ELSE value]
        ELSE NaN

\* The days of a month
DaysOfMonth(year, month) ==
    IF month = 2
    THEN (IF year % 4 = 0 /\ (year % 100 # 0 \/ year % 400 = 0) THEN 29 ELSE 28)
    ELSE IF month \in {4, 6, 9, 11} THEN 30 ELSE 31

NaT == [valid |-> FALSE, year |-> 0, month |-> 0, day |-> 0, hour |-> 0]

\* pd.to_datetime(errors='coerce') of a cell: a date written YYYY-MM-DD is
\* that day at midnight, a cell that is not a date is NaT
to_datetime(chars) ==
    IF /\ Len(chars) = 10
       /\ chars[5] = "-" /\ chars[8] = "-"
       /\ AllDigits(SubSeq(chars, 1, 4))
       /\ AllDigits(SubSeq(chars, 6, 7))
       /\ AllDigits(SubSeq(chars, 9, 10))
    THEN LET year == DecimalValue(SubSeq(chars, 1, 4))
             month == DecimalValue(SubSeq(chars, 6, 7))
             day == DecimalValue(SubSeq(chars, 9, 10))
         IN  IF year >= 1 /\ month \in 1..12 /\ day \in 1..DaysOfMonth(year, month)
             THEN [valid |-> TRUE, year |-> year, month |-> month, day |-> day, hour |-> 0]
             ELSE NaT
    ELSE NaT

\* The first category of the table, Miscellaneous left out, with a keyword
\* in the description, or Miscellaneous
RECURSIVE MatchKeywords(_, _)
MatchKeywords(table, description) ==
    IF table = <<>> THEN <<"M", "i", "s", "c", "e", "l", "l", "a", "n", "e", "o", "u", "s">>
    ELSE IF /\ Head(table).category # <<"M", "i", "s", "c", "e", "l", "l", "a", "n", "e", "o", "u", "s">>
            /\ \E k \in DOMAIN Head(table).keywords :
                   Contains(description, Lower(Head(table).keywords[k]))
    THEN Head(table).category
    ELSE MatchKeywords(Tail(table), description)

\* Variant of _categorize_transaction that compares the keywords with the
\* description as written
_categorize_transaction_case_sensitive(row) ==
    IF Strip(row.Category) # <<>> THEN Strip(row.Category)
    ELSE MatchKeywords(EXPENSE_CATEGORIES, row.Description)

\* _categorize_transaction(row)
_categorize_transaction(row) ==
    IF Strip(row.Category) # <<>> THEN Strip(row.Category)
    ELSE MatchKeywords(EXPENSE_CATEGORIES, Lower(row.Description))

\* df.sort_values('Date', ascending=False): the latest first, rows of one
\* date in their order
DateKey(date) == date.year * 10000 + date.month * 100 + date.day
RECURSIVE SortByDateDesc(_)
SortByDateDesc(rows) ==
    IF rows = <<>> THEN <<>>
    ELSE LET front == SortByDateDesc(SubSeq(rows, 1, Len(rows) - 1))
             last == rows[Len(rows)]
             before == SelectSeq(front, LAMBDA r : DateKey(r.Date) >= DateKey(last.Date))
             after == SelectSeq(front, LAMBDA r : DateKey(r.Date) < DateKey(last.Date))
         IN  before \o <<last>> \o after

\* The Amount cell before pd.to_numeric: without '$', ',' and outer blanks.
\* str.replace('$', '') takes '$' as a regular expression in the pandas
\* releases where regex defaults to True: it matches the end of the cell and
\* removes nothing.
CleanAmount(chars, regex) ==
    Strip(Remove(IF regex THEN chars ELSE Remove(chars, "$"), ","))

\* A row of the five Tiller columns, padded with '' and cut to five cells
PaddedRow(row) == [i \in 1..5 |-> IF i <= Len(row) THEN row[i] ELSE <<>>]

\* _clean_dataframe(df): the cells are strings, so dropna(how='all') drops
\* nothing; rows without a date or a number are dropped; the categories are
\* assigned and the rows sorted.  df.apply(axis=1) on a frame without rows
\* returns a frame, and assigning it to the Category column raises
\* ValueError in the pandas releases that check the column count
\* (empty_raises).  Is_Expense and Abs_Amount are the operators of that
\* name; Day_of_Week is not represented.
_clean_dataframe(rows, regex, empty_raises) ==
    LET dated == SelectSeq(rows, LAMBDA r : to_datetime(r[1]).valid)
        numeric == SelectSeq(dated, LAMBDA r : to_numeric(CleanAmount(r[4], regex)).valid)
        cleaned == [i \in DOMAIN numeric |->
                       [Date |-> to_datetime(numeric[i][1]),
                        Description |-> Strip(numeric[i][2]),
                        Category |-> numeric[i][3],
                        Amount |-> to_numeric(CleanAmount(numeric[i][4], regex)).cents,
                        Account |-> numeric[i][5]]]
        categorized == [i \in DOMAIN cleaned |->
                           [cleaned[i] EXCEPT !.Category = _categorize_transaction(cleaned[i])]]
    IN  IF cleaned = <<>> /\ empty_raises THEN [raised |-> TRUE, frame |-> <<>>]
        ELSE [raised |-> FALSE, frame |-> SortByDateDesc(categorized)]

\* process_transactions(raw_data)
process_transactions(raw, regex, empty_raises) ==
    IF raw = <<>> THEN [raised |-> FALSE, frame |-> <<>>]
    ELSE LET data_rows == Tail(raw)
             long_enough == SelectSeq(data_rows, LAMBDA r : Len(r) >= 4)
             processed_rows == [i \in DOMAIN long_enough |-> PaddedRow(long_enough[i])]
         IN  _clean_dataframe(processed_rows, regex, empty_raises)

\* Cells of the Date column: two days, a blank, a word, a day that does not exist
DateCells ==
    {<<"2", "0", "2", "4", "-", "0", "1", "-", "1", "5">>,
     <<"2", "0", "2", "4", "-", "0", "1", "-", "1", "6">>,
     <<>>,
     <<"s", "o", "o", "n">>,
     <<"2", "0", "2", "4", "-", "0", "2", "-", "3", "0">>}

\* Cells of the Description column: keywords of one and of two categories,
\* none, blank cells, and a cell with outer blanks
DescriptionCells ==
    {<<"U", "b", "e", "r", " ", "E", "a", "t", "s">>,
     <<>>,
     <<" ", " ">>,
     <<"S", "T", "A", "R", "B", "U", "C", "K", "S", " ", "1", "2">>,
     <<"C", "a", "r", "p", "e", "t", " ", "s", "t", "o", "r", "e">>,
     <<"R", "e", "n", "t">>,
     <<" ", "L", "y", "f", "t", " ">>}

\* Cells of the Category column: blank ones and a category with outer blanks
CategoryCells ==
    {<<>>,
     <<" ", "S", "h", "o", "p", "p", "i", "n", "g", " ">>,
     <<" ", " ">>}

\* Cells of the Amount column in the Tiller formats, blank, a word and zero
AmountCells ==
    {<<"-", "1", "2", ".", "5", "0">>,
     <<"$", "3", ",", "7", "8", "4", ".", "4", "4">>,
     <<"-", "$", "4", "2", "8", ".", "0", "0">>,
     <<>>,
     <<"a", "b", "c">>,
     <<"0">>,
     <<" ", "-", "7", " ">>}

HeaderRow ==
    <<<<"D", "a", "t", "e">>,
      <<"D", "e", "s", "c", "r", "i", "p", "t", "i", "o", "n">>,
      <<"C", "a", "t", "e", "g", "o", "r", "y">>,
      <<"A", "m", "o", "u", "n", "t">>,
      <<"A", "c", "c", "o", "u", "n", "t">>>>

\* What get_raw_data returns: nothing, the header alone, the header and one
\* row of any cells, and sheets of several rows with a row that is too
\* short, a row with an account and a sixth cell, and rows out of date order
RawBatches ==
    {<<>>, <<HeaderRow>>}
    \cup {<<HeaderRow, <<d, s, c, a>>>> :
             d \in DateCells, s \in DescriptionCells, c \in CategoryCells, a \in AmountCells}
    \cup {<<HeaderRow, <<d1, s, <<>>, <<"-", "5">>>>, <<d2, s>>,
            <<d2, <<"R", "e", "n", "t">>, <<>>, a, <<"V", "i", "s", "a">>, <<"x">>>>,
            <<d1, <<"G", "a", "s">>, <<>>, <<"-", "3", "0">>>>>> :
             d1 \in DateCells, d2 \in DateCells, s \in DescriptionCells, a \in AmountCells}

InitRetriever ==
    /\ config = DefaultConfig
    /\ df = <<>>
    /\ pc = "loading"
    /\ analysis = NoAnalysis
    /\ checks = <<>>
    /\ assessment = NoAssessment
    /\ analysis_results = <<>>
    /\ opportunities = <<>>
    /\ spending_trends = NoSpendingTrends
    /\ raw_data \in RawBatches
    /\ forecasts = <<>>

\* df = self.process_transactions(raw_data), with the pandas release at hand
ProcessTransactions ==
    /\ pc = "loading"
    /\ \E regex \in BOOLEAN, empty_raises \in BOOLEAN :
           LET result == process_transactions(raw_data, regex, empty_raises)
           IN  /\ df' = result.frame
               /\ pc' = IF result.raised THEN "raised" ELSE "processed"
    /\ UNCHANGED <<config, analysis, checks, assessment, analysis_results, opportunities,
                   spending_trends, raw_data, forecasts>>

NextRetriever == ProcessTransactions

SpecRetriever == InitRetriever /\ [][NextRetriever]_vars

(***************************************************************************)
(* analyze_daily_overspending on batches of more than one date, in any row *)
(* order.                                                                  *)
(***************************************************************************)
\* Rows of the day of the batch and of the day after it
OrderRows ==
    {Row("Subscriptions", -400, Today), Row("Subscriptions", -1200, Today + 1),
     Row("Food & Dining", -5750, Today + 1), Row("Groceries", -10655, Today),
     Row("Food & Dining", 400, Today)}

\* The batches of up to three of these rows, in every order
OrderBatches ==
    {<<>>} \cup {<<a>> : a \in OrderRows}
    \cup {<<a, b>> : a \in OrderRows, b \in OrderRows}
    \cup {<<a, b, c>> : a \in OrderRows, b \in OrderRows, c \in OrderRows}

InitOrder ==
    /\ config \in Configs
    /\ df \in OrderBatches
    /\ pc = "loading"
    /\ analysis = NoAnalysis
    /\ checks = <<>>
    /\ assessment = NoAssessment
    /\ analysis_results = <<>>
    /\ opportunities = <<>>
    /\ spending_trends = NoSpendingTrends
    /\ raw_data = <<>>
    /\ forecasts = <<>>

NextOrder == Analyze

SpecOrder == InitOrder /\ [][NextOrder]_vars

(***************************************************************************)
(* The analyses of batches without expenses or without income.  A fraction *)
(* with denominator 0 stands for the NaN that a division of 0 by 0 or the  *)
(* mean of an empty series gives.                                          *)
(***************************************************************************)
\* scenario["new_total"] and scenario["percentage_reduction"] of a scenario
\* that saves savings of current_monthly
Scenario(description, savings, current_monthly) ==
    [description |-> description,
     savings |-> savings,
     new_total |-> Frac(current_monthly * savings.den - savings.num, savings.den),
     percentage_reduction |-> Frac(savings.num * 100, savings.den * current_monthly)]

\* max(scenarios.keys(), key=savings): the first scenario, in the order of
\* the dict, that no other exceeds
BestScenario(scenarios, order) ==
    order[CHOOSE i \in DOMAIN order :
              /\ \A j \in DOMAIN order :
                    ~FracLess(scenarios[order[i]].savings, scenarios[order[j]].savings)
              /\ \A j \in 1..(i - 1) :
                    FracLess(scenarios[order[j]].savings, scenarios[order[i]].savings)]

\* _analyze_budget_scenarios(month_df)
_analyze_budget_scenarios(month_df) ==
    IF month_df = <<>> THEN [status |-> "insufficient_data"]
    ELSE LET expenses == ExpensesOf(month_df)
             current_monthly == SumAbsAmount(expenses)
             scenarios ==
                 [reduce_dining_10 |->
                      Scenario("Reduce Food & Dining by 10%",
                               Frac(SumAbsAmount(RowsOfCategory(expenses, "Food & Dining")), 10),
                               current_monthly),
                  reduce_shopping_20 |->
                      Scenario("Reduce Shopping by 20%",
                               Frac(SumAbsAmount(RowsOfCategory(expenses, "Shopping")) * 2, 10),
                               current_monthly),
                  eliminate_entertainment |->
                      Scenario("Eliminate Entertainment spending",
                               Frac(SumAbsAmount(RowsOfCategory(expenses, "Entertainment")), 1),
                               current_monthly)]
         IN  [current_monthly_spend |-> current_monthly,
              scenarios |-> scenarios,
              best_savings_scenario |->
                  BestScenario(scenarios, <<"reduce_dining_10", "reduce_shopping_20",
                                            "eliminate_entertainment">>)]

\* Batches, latest row first, of income alone, of expenses alone and of
\* both: Food & Dining on two days, Shopping and Entertainment on one
DegenerateBatches ==
    {Single("Food & Dining", f, 3) \o Single("Shopping", s, 2) \o Single("Entertainment", e, 2)
         \o Single("Food & Dining", g, 1) \o IncomeRow(inc) :
        f \in {0, 3000, 12000}, s \in {0, 2000, 6000}, e \in {0, 1500}, g \in {0, 1000},
        inc \in {0, 10000, 50000}}

InitDegenerate ==
    /\ config = DefaultConfig
    /\ df \in DegenerateBatches
    /\ pc = "loading"
    /\ analysis = NoAnalysis
    /\ checks = <<>>
    /\ assessment = NoAssessment
    /\ analysis_results = <<>>
    /\ opportunities = <<>>
    /\ spending_trends = NoSpendingTrends
    /\ raw_data = <<>>
    /\ forecasts = <<>>

\* The entries 'trend_analysis', 'budget_sensitivity' and 'cash_flow_health'
\* of the analysis_results of run_daily_analysis, for one batch
RunAnalyses ==
    /\ analysis_results = <<>>
    /\ analysis_results' =
           [trend_analysis |-> _analyze_trends_and_variance(RowsOfDay(df, Yesterday), df),
            budget_sensitivity |-> _analyze_budget_scenarios(df),
            cash_flow_health |-> _analyze_cash_flow_health(df)]
    /\ UNCHANGED <<config, df, pc, analysis, checks, assessment, opportunities,
                   spending_trends, raw_data, forecasts>>

NextDegenerate == RunAnalyses \/ AnalyzeSpendingTrends

SpecDegenerate == InitDegenerate /\ [][NextDegenerate]_vars

(***************************************************************************)
(* Properties of analyze_daily_overspending                                *)
(***************************************************************************)
Analysed == pc = "analysed"
AnalysedNonEmpty == pc = "analysed" /\ df # <<>>

\* The three status lists of the result, as one list
StatusLists ==
    analysis.overspending_alerts \o analysis.warning_alerts \o analysis.within_budget

\* What the batch spends in a category: the expense rows of the category,
\* added up row by row
RECURSIVE SpentUpTo(_, _)
SpentUpTo(category, n) ==
    IF n = 0 THEN 0
    ELSE SpentUpTo(category, n - 1)
         + (IF df[n].Amount < 0 /\ df[n].Category = category THEN -df[n].Amount ELSE 0)

SpentIn(category) == SpentUpTo(category, Len(df))

ActiveCategories == {df[i].Category : i \in {j \in DOMAIN df : df[j].Amount < 0}}

LimitOf(category) ==
    IF category \in DOMAIN config.budget_limits THEN config.budget_limits[category] ELSE 0

BudgetedActive == {c \in ActiveCategories : LimitOf(c) > 0}

\* The status the threshold arithmetic gives a category, both boundaries
\* inclusive
ExpectedStatus(c) ==
    IF SpentIn(c) * 100 >= config.overspending_threshold * LimitOf(c) THEN "OVERSPENDING"
    ELSE IF SpentIn(c) * 100 >= config.warning_threshold * LimitOf(c) THEN "WARNING"
    ELSE "WITHIN_BUDGET"

ListOfStatus(status) ==
    CASE status = "OVERSPENDING" -> analysis.overspending_alerts
      [] status = "WARNING" -> analysis.warning_alerts
      [] OTHER -> analysis.within_budget

\* C1: every category with expense activity and a budget limit > 0 has
\* exactly one entry over the three status lists, that entry is in the list
\* the threshold arithmetic names (>= overspending_threshold*100 is
\* OVERSPENDING, else >= warning_threshold*100 is WARNING, else
\* WITHIN_BUDGET), and carries that status.
C1_StatusPartition ==
    AnalysedNonEmpty =>
        \A c \in BudgetedActive :
            /\ Cardinality({i \in DOMAIN StatusLists : StatusLists[i].category = c}) = 1
            /\ \E i \in DOMAIN ListOfStatus(ExpectedStatus(c)) :
                  /\ ListOfStatus(ExpectedStatus(c))[i].category = c
                  /\ ListOfStatus(ExpectedStatus(c))[i].status = ExpectedStatus(c)

\* A default-configuration batch with one category at exactly 80% of its
\* limit (WARNING) and another at exactly 120% (OVERSPENDING)
C1_Witness ==
    /\ AnalysedNonEmpty
    /\ config = DefaultConfig
    /\ \E c \in BudgetedActive :
          /\ SpentIn(c) * 100 = 80 * LimitOf(c)
          /\ \E i \in DOMAIN analysis.warning_alerts : analysis.warning_alerts[i].category = c
    /\ \E c \in BudgetedActive :
          /\ SpentIn(c) * 100 = 120 * LimitOf(c)
          /\ \E i \in DOMAIN analysis.overspending_alerts :
                analysis.overspending_alerts[i].category = c

\* C2: the spending score lies in [0,100] for every batch and every
\* configuration, the empty batch and the zero and empty budgets included.
C2_ScoreBounds ==
    Analysed => (analysis.spending_score >= 0 /\ analysis.spending_score <= 100)

CountSeverity(severity) ==
    Cardinality({i \in DOMAIN analysis.overspending_alerts :
                    analysis.overspending_alerts[i].severity = severity})

\* The points the score formula takes off and adds for the status lists
ListPoints ==
    100 - 30 * CountSeverity("Critical") - 20 * CountSeverity("High")
        - 15 * CountSeverity("Medium") - 10 * CountSeverity("Low")
        - 5 * Len(analysis.warning_alerts) + 3 * Len(analysis.within_budget)

\* Four overspending categories whose deductions exceed 100: the score is
\* floored at 0
C2_Witness ==
    /\ AnalysedNonEmpty
    /\ Len(analysis.overspending_alerts) >= 4
    /\ ListPoints < 0
    /\ analysis.spending_score = 0

\* The summed budget of all configured categories
TotalBudget ==
    LET RECURSIVE Sum(_)
        Sum(S) == IF S = {} THEN 0
                  ELSE LET c == CHOOSE x \in S : TRUE
                       IN  config.budget_limits[c] + Sum(S \ {c})
    IN  Sum(DOMAIN config.budget_limits)

\* The under-budget bonus: none unless total spend < 80% of the total
\* budget; otherwise 20 times the under-spend fraction, cut to an integer,
\* and at most 15
IsBonus(b) ==
    IF TotalBudget > 0 /\ analysis.total_spent * 100 < 80 * TotalBudget
    THEN /\ b \in 0..15
         /\ b * TotalBudget <= 20 * (TotalBudget - analysis.total_spent)
         /\ (b < 15 => 20 * (TotalBudget - analysis.total_spent) < (b + 1) * TotalBudget)
    ELSE b = 0

Clamp(x) == IF x < 0 THEN 0 ELSE IF x > 100 THEN 100 ELSE x

\* C3: for a non-empty batch the score is clamp[0,100] of 100, minus
\* 30/20/15/10 per OVERSPENDING category of severity Critical/High/Medium/
\* Low, minus 5 per WARNING category, plus 3 per WITHIN_BUDGET category, plus
\* the under-budget bonus (applied only below 80% of the total budget, never
\* above 15, growing with the under-spend fraction).
C3_ScoreFormula ==
    AnalysedNonEmpty =>
        \E b \in 0..15 :
            /\ IsBonus(b)
            /\ analysis.spending_score = Clamp(ListPoints + b)

\* All three lists populated, a bonus strictly between 0 and 15, and a score
\* the clamp leaves alone
C3_Witness ==
    /\ AnalysedNonEmpty
    /\ analysis.overspending_alerts # <<>>
    /\ analysis.warning_alerts # <<>>
    /\ analysis.within_budget # <<>>
    /\ \E b \in 1..14 : IsBonus(b) /\ analysis.spending_score = ListPoints + b
    /\ analysis.spending_score \in 1..99

\* The severity bucket of a ratio spent/budget
ExpectedSeverity(spent, budget) ==
    IF spent * 100 >= 200 * budget THEN "Critical"
    ELSE IF spent * 100 >= 150 * budget THEN "High"
    ELSE IF spent * 100 >= 120 * budget THEN "Medium"
    ELSE "Low"

\* C4: the severity of an overspending alert is the bucket of its
\* percentage_used (>= 200 Critical, >= 150 High, >= 120 Medium, else Low),
\* and with an overspending threshold of 1.2 or more no alert is Low.
C4_Severity ==
    AnalysedNonEmpty =>
        \A i \in DOMAIN analysis.overspending_alerts :
            LET alert == analysis.overspending_alerts[i]
            IN  /\ alert.spent = SpentIn(alert.category)
                /\ alert.budget = LimitOf(alert.category)
                /\ alert.severity = ExpectedSeverity(alert.spent, alert.budget)
                /\ (config.overspending_threshold >= 120 => alert.severity # "Low")

\* 106.55 against 50 is Critical and 57.50 against 30 is High
C4_Witness ==
    /\ AnalysedNonEmpty
    /\ config = DefaultConfig
    /\ \E i, j \in DOMAIN analysis.overspending_alerts :
          /\ analysis.overspending_alerts[i].category = "Food & Dining"
          /\ analysis.overspending_alerts[i].spent = 10655
          /\ analysis.overspending_alerts[i].budget = 5000
          /\ analysis.overspending_alerts[i].severity = "Critical"
          /\ analysis.overspending_alerts[j].category = "Transportation"
          /\ analysis.overspending_alerts[j].spent = 5750
          /\ analysis.overspending_alerts[j].budget = 3000
          /\ analysis.overspending_alerts[j].severity = "High"

\* With the overspending threshold lowered to 1.0, 57.50 against 50 (115%)
\* is an overspending alert of severity Low
C4_LowUnderLowerThreshold ==
    /\ AnalysedNonEmpty
    /\ config.overspending_threshold < 120
    /\ \E i \in DOMAIN analysis.overspending_alerts :
          analysis.overspending_alerts[i].severity = "Low"

\* C5: for a non-empty batch the risk label is fixed by the score (>= 80
\* Excellent, >= 60 Good, >= 40 Fair, >= 20 Poor, else Critical) and is never
\* a RiskAssessment label.
C5_RiskLabel ==
    AnalysedNonEmpty =>
        /\ (analysis.risk_level = "Excellent") = (analysis.spending_score >= 80)
        /\ (analysis.risk_level = "Good") = (analysis.spending_score \in 60..79)
        /\ (analysis.risk_level = "Fair") = (analysis.spending_score \in 40..59)
        /\ (analysis.risk_level = "Poor") = (analysis.spending_score \in 20..39)
        /\ (analysis.risk_level = "Critical") = (analysis.spending_score < 20)
        /\ analysis.risk_level \notin {"Minimal Risk", "Low Risk", "Moderate Risk", "High Risk"}

\* A score exactly on the Poor boundary
C5_Witness ==
    /\ AnalysedNonEmpty
    /\ analysis.spending_score = 20
    /\ analysis.risk_level = "Poor"

\* C6: the empty batch gives the no-data result: zero totals, three empty
\* lists and a single recommendation noting the absence of data.
C6_EmptyBatch ==
    (Analysed /\ df = <<>>) =>
        /\ analysis.total_spent = 0
        /\ analysis.total_transactions = 0
        /\ analysis.categories_analyzed = 0
        /\ analysis.overspending_alerts = <<>>
        /\ analysis.warning_alerts = <<>>
        /\ analysis.within_budget = <<>>
        /\ Len(analysis.recommendations) = 1
        /\ analysis.recommendations[1].kind = "NO_DATA"

C6_Witness == Analysed /\ df = <<>> /\ analysis.date = "No Data"

RECURSIVE SumSpent(_)
SumSpent(entries) ==
    IF entries = <<>> THEN 0 ELSE Head(entries).spent + SumSpent(Tail(entries))

\* What the batch spends in a set of categories
RECURSIVE SpentInAll(_)
SpentInAll(S) ==
    IF S = {} THEN 0
    ELSE LET x == CHOOSE y \in S : TRUE
         IN  SpentIn(x) + SpentInAll(S \ {x})

\* C7: total_spent is the sum of abs_amount over the expense rows; the
\* `spent` of the three lists adds up to total_spent minus the spend of the
\* categories without a limit (missing or 0); no category is listed twice
\* and a category without a limit has no entry.
C7_Conservation ==
    AnalysedNonEmpty =>
        /\ analysis.total_spent = SpentInAll(ActiveCategories)
        /\ SumSpent(StatusLists)
              = analysis.total_spent - SpentInAll(ActiveCategories \ BudgetedActive)
        /\ \A i, j \in DOMAIN StatusLists :
              StatusLists[i].category = StatusLists[j].category => i = j
        /\ \A i \in DOMAIN StatusLists :
              /\ StatusLists[i].category \in BudgetedActive
              /\ StatusLists[i].spent = SpentIn(StatusLists[i].category)

\* A batch with an income row, spend in a category missing from the
\* configuration, spend in a category whose limit is 0, and budgeted spend
C7_Witness ==
    /\ AnalysedNonEmpty
    /\ \E i \in DOMAIN df : df[i].Amount > 0
    /\ \E c \in ActiveCategories : c \notin DOMAIN config.budget_limits
    /\ \E c \in ActiveCategories :
          c \in DOMAIN config.budget_limits /\ config.budget_limits[c] = 0
    /\ StatusLists # <<>>
    /\ SumSpent(StatusLists) < analysis.total_spent

\* The entries of within_budget with the lowest percentage_used
BestWithin ==
    {e \in {analysis.within_budget[i] : i \in DOMAIN analysis.within_budget} :
        \A j \in DOMAIN analysis.within_budget :
            e.spent * analysis.within_budget[j].budget
                <= analysis.within_budget[j].spent * e.budget}

\* C8: the recommendations are, in this order, one per overspending alert
\* (the urgent template iff the alert is Critical), one per warning alert,
\* and, iff within_budget is non-empty, one positive note naming a
\* within-budget category of lowest percentage_used; nothing else.
C8_Recommendations ==
    AnalysedNonEmpty =>
        LET recs == analysis.recommendations
            nOver == Len(analysis.overspending_alerts)
            nWarn == Len(analysis.warning_alerts)
            nBest == IF analysis.within_budget # <<>> THEN 1 ELSE 0
        IN  /\ Len(recs) = nOver + nWarn + nBest
            /\ \A i \in 1..nOver :
                  /\ recs[i].category = analysis.overspending_alerts[i].category
                  /\ recs[i].kind \in {"URGENT", "REDUCE"}
                  /\ (recs[i].kind = "URGENT")
                        = (analysis.overspending_alerts[i].severity = "Critical")
            /\ \A i \in 1..nWarn :
                  /\ recs[nOver + i].category = analysis.warning_alerts[i].category
                  /\ recs[nOver + i].kind = "MONITOR"
            /\ nBest = 1 =>
                  /\ recs[nOver + nWarn + 1].kind = "GREAT_JOB"
                  /\ \E e \in BestWithin : e.category = recs[nOver + nWarn + 1].category

\* A Critical alert, a non-Critical alert, a warning and a within-budget
\* category: every template occurs
C8_Witness ==
    /\ AnalysedNonEmpty
    /\ \E i, j \in DOMAIN analysis.overspending_alerts :
          /\ analysis.overspending_alerts[i].severity = "Critical"
          /\ analysis.overspending_alerts[j].severity # "Critical"
    /\ analysis.warning_alerts # <<>>
    /\ analysis.within_budget # <<>>
    /\ analysis.recommendations[Len(analysis.recommendations)].kind = "GREAT_JOB"

\* Two within-budget categories, the later one with the lower percentage
C8_BestIsNotFirst ==
    /\ AnalysedNonEmpty
    /\ Len(analysis.within_budget) >= 2
    /\ analysis.within_budget[1] \notin BestWithin

\* C9: whenever the risk label is Poor or Critical, the recommendations hold
\* a generic tip beyond the per-category entries.
C9_GenericTip ==
    (AnalysedNonEmpty /\ analysis.risk_level \in {"Poor", "Critical"}) =>
        \E i \in DOMAIN analysis.recommendations :
            analysis.recommendations[i].kind \in {"DAILY_LIMIT_TIP", "STRICTER_LIMITS_TIP"}

(***************************************************************************)
(* Properties of assess_financial_risks                                    *)
(***************************************************************************)
Assessed == checks # <<>>

\* The number of checks that triggered
TriggeredCount == Cardinality({i \in DOMAIN checks : checks[i].is_risk})

HighRung == assessment.severity_score >= 80 \/ TriggeredCount >= 4
ModerateRung == assessment.severity_score >= 60 \/ TriggeredCount >= 3
LowRung == assessment.severity_score >= 40 \/ TriggeredCount >= 2

\* C10: risk_level follows the ladder top-down: High Risk if severity_score
\* >= 80 or >= 4 factors; Moderate Risk if >= 60 or >= 3; Low Risk if >= 40
\* or >= 2; Minimal Risk if exactly one factor; Low Risk for zero factors.
\* So Minimal Risk occurs only for exactly one factor with severity below 40.
C10_RiskLadder ==
    Assessed =>
        /\ Len(assessment.factors) = TriggeredCount
        /\ (assessment.risk_level = "High Risk") = HighRung
        /\ (assessment.risk_level = "Moderate Risk") = (~HighRung /\ ModerateRung)
        /\ (assessment.risk_level = "Low Risk")
              = (~HighRung /\ ~ModerateRung /\ (LowRung \/ TriggeredCount = 0))
        /\ (assessment.risk_level = "Minimal Risk")
              = (TriggeredCount = 1 /\ assessment.severity_score < 40)

\* Exactly one check triggered, with a severity just below 40, while a check
\* that did not trigger reports a higher one
C10_Witness ==
    /\ Assessed
    /\ TriggeredCount = 1
    /\ assessment.severity_score = 39
    /\ \E i \in DOMAIN checks : ~checks[i].is_risk /\ checks[i].severity >= 40
    /\ assessment.risk_level = "Minimal Risk"

\* No check triggered: the ladder falls through to Low Risk
C10_ZeroFactors ==
    /\ Assessed
    /\ TriggeredCount = 0
    /\ assessment.risk_level = "Low Risk"

\* The confidence the assessment is to report for n triggered factors
ExpectedConfidence(n) == <<60, 70, 80, 90, 95, 95>>[n + 1]

\* C11: confidence equals min(95, 60 + 10 * number of triggered factors); it
\* never exceeds 95, does not decrease when one more factor triggers, and is
\* 95 for four as for five triggered factors.
C11_Confidence ==
    Assessed =>
        /\ assessment.confidence = ExpectedConfidence(TriggeredCount)
        /\ assessment.confidence <= 95
        /\ \A n \in 0..4 : ExpectedConfidence(n) <= ExpectedConfidence(n + 1)
        /\ (TriggeredCount >= 4) => assessment.confidence = 95

\* All five checks triggered: the cap holds the confidence at 95
C11_Witness ==
    /\ Assessed
    /\ TriggeredCount = 5
    /\ assessment.confidence = 95

(***************************************************************************)
(* Properties of the five checks and of their composition                  *)
(***************************************************************************)
\* The largest element of a set of naturals, 0 for the empty set
SetMax(S) == IF S = {} THEN 0 ELSE CHOOSE m \in S : \A x \in S : x <= m

\* The largest severity among the checks that triggered
TriggeredMax == SetMax({checks[i].severity : i \in {j \in DOMAIN checks : checks[j].is_risk}})

\* The rung of the ladder for a severity and a number of factors
LevelFor(severity, factors) ==
    IF severity >= 80 \/ factors >= 4 THEN "High Risk"
    ELSE IF severity >= 60 \/ factors >= 3 THEN "Moderate Risk"
    ELSE IF severity >= 40 \/ factors >= 2 THEN "Low Risk"
    ELSE IF factors = 1 THEN "Minimal Risk"
    ELSE "Low Risk"

\* C12: severity_score is the maximum severity over exactly the checks that
\* triggered, 0 when none triggered, and within 0..100; the severity a check
\* computes without triggering contributes neither to severity_score nor to
\* risk_level.
C12_SeverityScore ==
    Assessed =>
        /\ assessment.severity_score = TriggeredMax
        /\ (TriggeredCount = 0) => assessment.severity_score = 0
        /\ assessment.severity_score \in 0..100
        /\ \A i \in DOMAIN checks : checks[i].severity \in 0..100
        /\ assessment.risk_level = LevelFor(TriggeredMax, TriggeredCount)

\* A concentration share of 0.39 (severity 58) and a single category with
\* slope 45 (severity 45) do not trigger; the liquidity check alone does, with
\* severity 26, and decides the score.
C12_Witness ==
    /\ Assessed
    /\ ~checks[2].is_risk /\ checks[2].severity = 58
    /\ ~checks[3].is_risk /\ checks[3].severity = 45
    /\ checks[4].is_risk /\ checks[4].severity = 26
    /\ TriggeredCount = 1
    /\ assessment.severity_score = 26
    /\ assessment.risk_level = "Minimal Risk"

\* The week behind the cash-flow results, when there is one
HasCashFlow ==
    /\ "cash_flow_health" \in DOMAIN analysis_results
    /\ "weekly_income" \in DOMAIN analysis_results.cash_flow_health
WeekIncome == IF HasCashFlow THEN analysis_results.cash_flow_health.weekly_income ELSE 0
WeekExpense == IF HasCashFlow THEN analysis_results.cash_flow_health.weekly_expenses ELSE 0

\* The expense-to-income ratio exceeds 0.9 (a week without income has ratio 0)
RatioOverNineTenths == WeekIncome > 0 /\ 10 * WeekExpense > 9 * WeekIncome

\* 100 * (ratio - 0.7), as an integer
ScaledExcess == (100 * WeekExpense - 70 * WeekIncome) \div WeekIncome

C13_NegativeFlow ==
    /\ Assessed
    /\ WeekIncome = 10000 /\ WeekExpense = 11200
    /\ checks[4].severity = 92

\* The expenses of the batch, per category
ExpenseOfCategory(c) == SumAbsAmount(RowsOfCategory(ExpensesOf(df), c))
TotalExpense == SumAbsAmount(ExpensesOf(df))

\* The largest amount any category has spent
LargestCategoryExpense ==
    SetMax({ExpenseOfCategory(df[i].Category) : i \in DOMAIN df})

\* C14: the concentration check triggers iff the largest category's share of
\* the total expense strictly exceeds 0.4 (not at exactly 0.4, not for a total
\* of zero), and its severity is min(100, round(share * 150)), the product
\* rounded to the nearest integer (share 0.45 gives 68).
C14_ConcentrationRounded ==
    Assessed =>
        /\ checks[2].is_risk =
              (TotalExpense > 0 /\ 10 * LargestCategoryExpense > 4 * TotalExpense)
        /\ (TotalExpense > 0) =>
              checks[2].severity =
                  Min(100, FormatNoDecimals(Frac(150 * LargestCategoryExpense, TotalExpense)))
        /\ (TotalExpense = 0) => checks[2].severity = 0

\* The trigger of the concentration check alone: strictly above 0.4
C14_Trigger ==
    Assessed =>
        checks[2].is_risk =
            (TotalExpense > 0 /\ 10 * LargestCategoryExpense > 4 * TotalExpense)

\* A share of exactly 0.4 and a severity of 60, not triggered
C14_ExactShare ==
    /\ Assessed
    /\ TotalExpense = 10000 /\ LargestCategoryExpense = 4000
    /\ ~checks[2].is_risk
    /\ checks[2].severity = 60

\* A share of 0.45: the product 67.5 is cut to 67
C14_Truncated ==
    /\ Assessed
    /\ TotalExpense = 10000 /\ LargestCategoryExpense = 4500
    /\ checks[2].is_risk
    /\ checks[2].severity = 67

\* The entries of the trend analysis handed to the assessment
CategoryTrends ==
    IF "trend_analysis" \in DOMAIN analysis_results
    THEN analysis_results.trend_analysis.category_trends
    ELSE <<>>

\* The categories the trend check is to consider: increasing, slope > 10
Qualifying ==
    {i \in DOMAIN CategoryTrends :
        /\ CategoryTrends[i].trend_direction = "increasing"
        /\ CategoryTrends[i].trend_slope.num > 1000 * CategoryTrends[i].trend_slope.den}

\* The sum of the slopes at a set of positions, in cents per day
RECURSIVE SlopeSum(_)
SlopeSum(I) ==
    IF I = {} THEN Frac(0, 1)
    ELSE LET i == CHOOSE x \in I : TRUE
         IN  FracAdd(CategoryTrends[i].trend_slope, SlopeSum(I \ {i}))

\* The trigger of the trend check: two qualifying categories, or a slope sum
\* above 50
TrendTrigger ==
    Cardinality(Qualifying) >= 2
    \/ SlopeSum(Qualifying).num > 5000 * SlopeSum(Qualifying).den

\* C15: the trend check considers only the categories whose trend_direction
\* is 'increasing' and whose slope is > 10 per day; it triggers iff there are
\* at least two of them or their slopes sum to more than 50, and its severity
\* is min(100, round(sum of the qualifying slopes)).
C15_TrendRounded ==
    Assessed =>
        /\ checks[3].is_risk = TrendTrigger
        /\ checks[3].severity =
              Min(100, FormatNoDecimals(Frac(SlopeSum(Qualifying).num,
                                             SlopeSum(Qualifying).den * 100)))

\* The trigger of the trend check alone
C15_Trigger == Assessed => checks[3].is_risk = TrendTrigger

\* Slopes 25.60 and 30.00: the sum 55.60 is cut to 55
C15_Truncated ==
    /\ Assessed
    /\ Cardinality(Qualifying) = 2
    /\ SlopeSum(Qualifying) = Frac(5560, 1)
    /\ checks[3].is_risk
    /\ checks[3].severity = 55

\* The expenses of the batch on weekend days, and the late-night ones
WeekendExpense ==
    SumAbsAmount(SelectSeq(ExpensesOf(df), LAMBDA r : r.Date.day % 7 \in {6, 0}))
LateNightCount ==
    Cardinality({i \in DOMAIN df :
        Is_Expense(df[i]) /\ (df[i].Date.hour >= 22 \/ df[i].Date.hour <= 6)})
ExpenseCount == Cardinality({i \in DOMAIN df : Is_Expense(df[i])})
ActiveDays == {df[i].Date.day : i \in {j \in DOMAIN df : Is_Expense(df[j])}}
BusyDays ==
    {d \in ActiveDays :
        Cardinality({i \in DOMAIN df : Is_Expense(df[i]) /\ df[i].Date.day = d}) > 5}

WeekendSubCheck == 10 * WeekendExpense > 4 * TotalExpense
LateNightSubCheck == 5 * LateNightCount > ExpenseCount
BusyDaysSubCheck == 10 * Cardinality(BusyDays) > 3 * Cardinality(ActiveDays)

\* C16: the behavioral severity is 30 if the weekend spend exceeds 40% of the
\* total expense, plus 20 if late-night transactions exceed 20% of the expense
\* count, plus 25 if days with more than 5 transactions exceed 30% of the
\* active days; the check is triggered iff one of the three holds.  A batch
\* spent entirely on weekend days triggers the weekend sub-check.
C16_Behavioral ==
    Assessed =>
        /\ checks[5].severity =
              (IF WeekendSubCheck THEN 30 ELSE 0)
              + (IF LateNightSubCheck THEN 20 ELSE 0)
              + (IF BusyDaysSubCheck THEN 25 ELSE 0)
        /\ checks[5].is_risk = (WeekendSubCheck \/ LateNightSubCheck \/ BusyDaysSubCheck)
        /\ (TotalExpense > 0 /\ WeekendExpense = TotalExpense) => checks[5].severity >= 30

\* The same, for the batches that have an expense on a weekday
C16_WithWeekdayExpense ==
    (Assessed /\ WeekendExpense < TotalExpense) =>
        /\ checks[5].severity =
              (IF WeekendSubCheck THEN 30 ELSE 0)
              + (IF LateNightSubCheck THEN 20 ELSE 0)
              + (IF BusyDaysSubCheck THEN 25 ELSE 0)
        /\ checks[5].is_risk = (WeekendSubCheck \/ LateNightSubCheck \/ BusyDaysSubCheck)

\* All three sub-checks at once: severity 75
C16_AllThree ==
    /\ Assessed
    /\ WeekendSubCheck /\ LateNightSubCheck /\ BusyDaysSubCheck
    /\ checks[5].severity = 75

\* Exactly 40% on the weekend, exactly 20% late at night: neither triggers
C16_AtThresholds ==
    /\ Assessed
    /\ TotalExpense > 0
    /\ \/ 10 * WeekendExpense = 4 * TotalExpense
       \/ 5 * LateNightCount = ExpenseCount
    /\ ~checks[5].is_risk

\* The whole expense on a Saturday: the check does not trigger
C16_WeekendOnly ==
    /\ Assessed
    /\ TotalExpense > 0 /\ WeekendExpense = TotalExpense
    /\ ~checks[5].is_risk
    /\ checks[5].severity = 0

(***************************************************************************)
(* Properties of identify_growth_opportunities                             *)
(***************************************************************************)
Identified == opportunities # <<>>

\* What the five detectors produce, in the order they are called
Detected ==
    _identify_subscription_optimization(df)
    \o _identify_efficiency_improvements(df)
    \o _identify_automation_opportunities(analysis_results)
    \o _identify_behavioral_optimizations(df)
    \o _identify_strategic_opportunities(analysis_results)

\* How often x occurs in a sequence
CountIn(seq, x) == Cardinality({i \in DOMAIN seq : seq[i] = x})

\* C17: the returned list is in non-increasing order of potential_value and
\* holds every opportunity of every detector, as often as it was produced:
\* nothing is deduplicated or dropped.
C17_SortedComplete ==
    Identified =>
        /\ \A i \in 1..(Len(opportunities) - 1) :
              opportunities[i].potential_value >= opportunities[i + 1].potential_value
        /\ Len(opportunities) = Len(Detected)
        /\ \A i \in DOMAIN Detected :
              CountIn(opportunities, Detected[i]) = CountIn(Detected, Detected[i])

\* Two vendors give two 'Subscription Management' opportunities, Uber is
\* behind one of them and behind 'Transportation Optimization', and the
\* detectors did not produce the list in sorted order.
C17_Witness ==
    /\ Identified
    /\ Cardinality({i \in DOMAIN opportunities :
                       opportunities[i].category = "Subscription Management"}) = 2
    /\ \E i \in DOMAIN opportunities : opportunities[i].category = "Transportation Optimization"
    /\ \E i \in DOMAIN opportunities : opportunities[i].action_items[1] = "Uber"
    /\ opportunities # Detected
    /\ Len(opportunities) >= 6

\* The net cash flow of analysis_results, 0 when there is none
NetFlow ==
    IF /\ "cash_flow_health" \in DOMAIN analysis_results
       /\ "net_cash_flow" \in DOMAIN analysis_results.cash_flow_health
    THEN analysis_results.cash_flow_health.net_cash_flow
    ELSE 0

\* The opportunities with a category label
WithCategory(label) == SelectSeq(opportunities, LAMBDA o : o.category = label)

\* C18: for every input the automation detector yields exactly one low-effort
\* 'Budget Automation' opportunity of value 200, and one 'Automated Savings'
\* opportunity iff the net cash flow is > 100, valued at 12 * (50% of the net
\* cash flow).
C18_Automation ==
    Identified =>
        /\ Len(WithCategory("Budget Automation")) = 1
        /\ WithCategory("Budget Automation")[1].potential_value = 200 * 10000
        /\ WithCategory("Budget Automation")[1].effort_level = "low"
        /\ Len(WithCategory("Automated Savings")) = (IF NetFlow > 100 * 100 THEN 1 ELSE 0)
        /\ \A i \in DOMAIN WithCategory("Automated Savings") :
              WithCategory("Automated Savings")[i].potential_value = 12 * (NetFlow * 50)

\* A net cash flow of exactly 100: no 'Automated Savings'
C18_Witness ==
    /\ Identified
    /\ NetFlow = 10000
    /\ Len(WithCategory("Automated Savings")) = 0
    /\ Len(WithCategory("Budget Automation")) = 1

\* The empty batch without cash-flow results still gets 'Budget Automation'
C18_EmptyBatch ==
    /\ Identified
    /\ df = <<>>
    /\ "cash_flow_health" \notin DOMAIN analysis_results
    /\ Len(WithCategory("Budget Automation")) = 1

\* A net cash flow of 101: 'Automated Savings' of 12 * 50.50
C18_JustAbove ==
    /\ Identified
    /\ NetFlow = 10100
    /\ Len(WithCategory("Automated Savings")) = 1
    /\ WithCategory("Automated Savings")[1].potential_value = 6060000

\* The vendors of the batch and their expenses
Vendors == {df[i].Description : i \in {j \in DOMAIN df : Is_Expense(df[j])}}
VendorExpenses(v) == RowsOfVendor(ExpensesOf(df), v)

\* The sample standard deviation of a vendor's amounts is below 10% of their
\* mean: variance < mean^2 / 100, with
\* variance = (n * sum of squares - square of sum) / (n * (n - 1))
LowVariance(v) ==
    LET n == Len(VendorExpenses(v))
        sum == SumAbsAmount(VendorExpenses(v))
    IN  100 * n * (n * SumSquares(VendorExpenses(v)) - sum * sum) < (n - 1) * sum * sum

SubscriptionCandidates == {v \in Vendors : Len(VendorExpenses(v)) >= 2 /\ LowVariance(v)}

\* The subscription opportunities of a vendor
SubscriptionsOf(v) ==
    SelectSeq(WithCategory("Subscription Management"), LAMBDA o : o.action_items[1] = v)

\* C19: subscription detection produces exactly one opportunity per vendor
\* with at least 2 occurrences and a sample standard deviation below 10% of
\* the mean amount, valued at 0.3 * (mean amount * 4), and none for any other
\* vendor; three expenses of 12.99 give one of value 0.3 * (12.99 * 4).
C19_Subscriptions ==
    Identified =>
        \A v \in Vendors :
            /\ Len(SubscriptionsOf(v)) = (IF v \in SubscriptionCandidates THEN 1 ELSE 0)
            /\ \A i \in DOMAIN SubscriptionsOf(v) :
                  SubscriptionsOf(v)[i].potential_value * Len(VendorExpenses(v))
                      = 120 * SumAbsAmount(VendorExpenses(v))

\* Which vendors get an opportunity, for the vendors away from the 10% line
C19_ClearCases ==
    Identified =>
        \A v \in Vendors :
            /\ Len(VendorExpenses(v)) = 1 => Len(SubscriptionsOf(v)) = 0
            /\ (\A i \in DOMAIN VendorExpenses(v) : VendorExpenses(v)[i].Amount = -1299)
                  /\ Len(VendorExpenses(v)) = 3
                  => /\ Len(SubscriptionsOf(v)) = 1
                     /\ SubscriptionsOf(v)[1].potential_value = 155880

\* Three charges of 12.99: one opportunity of value 15.588
C19_Example ==
    /\ Identified
    /\ Len(VendorExpenses("Netflix")) = 3
    /\ \A i \in DOMAIN VendorExpenses("Netflix") : VendorExpenses("Netflix")[i].Amount = -1299
    /\ Len(SubscriptionsOf("Netflix")) = 1
    /\ SubscriptionsOf("Netflix")[1].potential_value = 155880

\* Charges of 1.19 and 1.37: deviation 0.1273 below a tenth of the mean 1.28,
\* but 0.13 once rounded, and no opportunity
C19_RoundedAway ==
    /\ Identified
    /\ "Netflix" \in SubscriptionCandidates
    /\ Len(SubscriptionsOf("Netflix")) = 0

(***************************************************************************)
(* Properties of the trend direction                                       *)
(***************************************************************************)
TrendsAnalysed == "trend_analysis" \in DOMAIN analysis_results /\ df # <<>>
SpendingAnalysed == spending_trends # NoSpendingTrends /\ df # <<>>

\* What the batch spends in the categories S on a day
RECURSIVE SpentOnUpTo(_, _, _)
SpentOnUpTo(S, day, n) ==
    IF n = 0 THEN 0
    ELSE SpentOnUpTo(S, day, n - 1)
         + (IF df[n].Amount < 0 /\ df[n].Category \in S /\ df[n].Date.day = day
            THEN -df[n].Amount ELSE 0)

\* The days with an expense in the categories S, and the daily sums in
\* chronological order
ExpenseDays(S) ==
    {df[i].Date.day : i \in {j \in DOMAIN df : df[j].Amount < 0 /\ df[j].Category \in S}}
ChronologicalSums(S) ==
    LET dates == SortedDays(ExpenseDays(S))
    IN  [i \in DOMAIN dates |-> SpentOnUpTo(S, dates[i], Len(df))]

\* The least-squares slope of y over x = 0, 1, ...: the sum of
\* (x - mean x) * (y - mean y) over the sum of (x - mean x)^2, both scaled
\* by n * n
RECURSIVE SumOver(_, _)
SumOver(f, n) == IF n = 0 THEN 0 ELSE f[n] + SumOver(f, n - 1)
LeastSquaresSlope(y) ==
    LET n == Len(y)
        sx == SumOver([i \in 1..n |-> i - 1], n)
        sy == SumOver(y, n)
    IN  Frac(SumOver([i \in 1..n |-> (n * (i - 1) - sx) * (n * y[i] - sy)], n),
             SumOver([i \in 1..n |-> (n * (i - 1) - sx) * (n * (i - 1) - sx)], n))

\* The direction of a series of at least two days with a deadband of k dollars
DeadbandDirection(y, k) ==
    LET slope == LeastSquaresSlope(y)
    IN  IF slope.num > k * 100 * slope.den THEN "increasing"
        ELSE IF slope.num < -k * 100 * slope.den THEN "decreasing"
        ELSE "stable"

\* The labels of _calculate_trend_direction
Capitalised(direction) ==
    CASE direction = "increasing" -> "Increasing"
      [] direction = "decreasing" -> "Decreasing"
      [] direction = "stable" -> "Stable"

ExpenseCategories == {df[i].Category : i \in {j \in DOMAIN df : df[j].Amount < 0}}
TrendsOfCategory(c) ==
    SelectSeq(analysis_results.trend_analysis.category_trends, LAMBDA e : e.category = c)

\* The per-category trends follow the +/-1 deadband; a category with a
\* single day has no entry
C20_CategoryTrends ==
    TrendsAnalysed =>
        \A c \in ExpenseCategories :
            IF Len(ChronologicalSums({c})) < 2 THEN TrendsOfCategory(c) = <<>>
            ELSE /\ Len(TrendsOfCategory(c)) = 1
                 /\ TrendsOfCategory(c)[1].trend_direction
                        = DeadbandDirection(ChronologicalSums({c}), 1)
                 /\ TrendsOfCategory(c)[1].trend_slope.num * LeastSquaresSlope(ChronologicalSums({c})).den
                        = LeastSquaresSlope(ChronologicalSums({c})).num * TrendsOfCategory(c)[1].trend_slope.den

\* The direction of analyze_spending_trends follows a deadband of +/-5
C20_SpendingTrendsFive ==
    SpendingAnalysed =>
        spending_trends.trend_direction =
            (IF Len(ChronologicalSums(ExpenseCategories)) < 2 THEN "Insufficient Data"
             ELSE Capitalised(DeadbandDirection(ChronologicalSums(ExpenseCategories), 5)))

\* C20: trend direction is classified from the least-squares slope of the
\* chronological daily sums with a +/-1 deadband: increasing iff slope > 1,
\* decreasing iff slope < -1, stable otherwise; a series with a single day
\* yields no computed trend.  Stated of both classifiers.
C20_TrendDirection ==
    /\ C20_CategoryTrends
    /\ SpendingAnalysed =>
           spending_trends.trend_direction =
               (IF Len(ChronologicalSums(ExpenseCategories)) < 2 THEN "Insufficient Data"
                ELSE Capitalised(DeadbandDirection(ChronologicalSums(ExpenseCategories), 1)))

\* Slopes of exactly +1 and of 1.01 in a category: stable and increasing
C20_AtOne ==
    /\ TrendsAnalysed
    /\ ChronologicalSums({"Food & Dining"}) = <<1000, 1100>>
    /\ TrendsOfCategory("Food & Dining")[1].trend_direction = "stable"
C20_AboveOne ==
    /\ TrendsAnalysed
    /\ ChronologicalSums({"Food & Dining"}) = <<1000, 1101>>
    /\ TrendsOfCategory("Food & Dining")[1].trend_direction = "increasing"
C20_AtMinusOne ==
    /\ TrendsAnalysed
    /\ ChronologicalSums({"Food & Dining"}) = <<1000, 900>>
    /\ TrendsOfCategory("Food & Dining")[1].trend_direction = "stable"

\* Three days with a slope of exactly 1, and Shopping on a single day
C20_ThreeDays ==
    /\ TrendsAnalysed
    /\ ChronologicalSums({"Food & Dining"}) = <<1000, 900, 1200>>
    /\ Len(ChronologicalSums({"Shopping"})) = 1
    /\ TrendsOfCategory("Shopping") = <<>>
    /\ TrendsOfCategory("Food & Dining")[1].trend_direction = "stable"
C20_BelowMinusOne ==
    /\ TrendsAnalysed
    /\ ChronologicalSums({"Food & Dining"}) = <<1000, 899>>
    /\ TrendsOfCategory("Food & Dining")[1].trend_direction = "decreasing"

\* Daily totals of 10.00 and 13.00: a slope of 3 that analyze_spending_trends
\* reports as 'Stable'
C20_SlopeOfThree ==
    /\ SpendingAnalysed
    /\ ChronologicalSums(ExpenseCategories) = <<1000, 1300>>
    /\ spending_trends.trend_direction = "Stable"

\* A single day of expenses: 'Insufficient Data'
C20_SingleDay ==
    /\ SpendingAnalysed
    /\ Len(ChronologicalSums(ExpenseCategories)) = 1
    /\ spending_trends.trend_direction = "Insufficient Data"

(***************************************************************************)
(* Properties of the forecast                                              *)
(***************************************************************************)
\* The forecasts computed from a month that is not empty
Forecasted == {k \in DOMAIN forecasts : df # <<>>}

ForecastsOf(k, c) ==
    SelectSeq(forecasts[k].category_forecasts, LAMBDA f : f.category = c)

\* The relations of the forecast for a window of a number of days: one entry
\* per category with expenses, rate = sum / days, projection = rate * 30,
\* flagged iff limit > 0 and projection > daily limit * 30, and the
\* high-risk list is the set of flagged categories
ForecastFor(k, days) ==
    /\ \A c \in ActiveCategories :
          /\ Len(ForecastsOf(k, c)) = 1
          /\ ForecastsOf(k, c)[1].daily_rate.num * days
                 = SpentIn(c) * ForecastsOf(k, c)[1].daily_rate.den
          /\ ForecastsOf(k, c)[1].projected_month_total.num * days
                 = SpentIn(c) * 30 * ForecastsOf(k, c)[1].projected_month_total.den
          /\ ForecastsOf(k, c)[1].will_exceed_budget
                 <=> (DictGet(DAILY_BUDGET_LIMITS, c) > 0
                      /\ SpentIn(c) * 30 > DictGet(DAILY_BUDGET_LIMITS, c) * 30 * days)
    /\ {forecasts[k].high_risk_categories[i] : i \in DOMAIN forecasts[k].high_risk_categories}
           = {c \in ActiveCategories : ForecastsOf(k, c)[1].will_exceed_budget}
    /\ Len(forecasts[k].category_forecasts) = Cardinality(ActiveCategories)

\* The days of the window from today - 30 days to today
WindowDays == 30

\* C21: in the forecast, for every category with expenses in the window,
\* daily rate = window expense sum / number of days in the window, projected
\* month total = rate * 30, will_exceed_budget iff the category has a limit
\* > 0 and the projection is strictly greater than daily limit * 30;
\* categories without a limit are reported but never flagged, and
\* high_risk_categories is exactly the set of flagged categories.
C21_Forecast == \A k \in Forecasted : ForecastFor(k, WindowDays)

\* Every forecast satisfies the relations for 29 or for 30 days
C21_SomeDays == \A k \in Forecasted : ForecastFor(k, 29) \/ ForecastFor(k, 30)

\* 300.00 of Subscriptions in the window: the projection 310.34 exceeds
\* the limit of 300 when the clock moved on between the two readings
C21_Flagged ==
    /\ forecasts # <<>>
    /\ SpentIn("Subscriptions") = 30000
    /\ SpentIn("Groceries") = 90000
    /\ ForecastsOf(1, "Subscriptions")[1].will_exceed_budget
    /\ ~ForecastsOf(1, "Groceries")[1].will_exceed_budget

\* The same month when the clock did not move: at the limit, not flagged
C21_AtLimit ==
    /\ forecasts # <<>>
    /\ SpentIn("Subscriptions") = 30000
    /\ ~ForecastsOf(1, "Subscriptions")[1].will_exceed_budget
    /\ forecasts[1].high_risk_categories = <<>>

\* C24: determinism: two invocations of an analyzer on the same transaction
\* batch and the same configuration return identical results, regardless of
\* the wall-clock time of each invocation.  Stated of the calls of the
\* forecast, whose batch and configuration do not change between the calls.
C24_Deterministic == \A j, k \in DOMAIN forecasts : forecasts[j] = forecasts[k]

\* Two forecasts of one month that differ in the rates and in the flags
C24_TwoRates ==
    /\ Len(forecasts) = 2
    /\ df # <<>>
    /\ forecasts[1].days_remaining_in_month = forecasts[2].days_remaining_in_month
    /\ forecasts[1].high_risk_categories # forecasts[2].high_risk_categories

\* Two forecasts of one month that differ only in days_remaining_in_month
C24_TwoDays ==
    /\ Len(forecasts) = 2
    /\ df # <<>>
    /\ forecasts[1].days_remaining_in_month # forecasts[2].days_remaining_in_month
    /\ forecasts[1].category_forecasts = forecasts[2].category_forecasts

(***************************************************************************)
(* Properties of process_transactions                                      *)
(***************************************************************************)
Processed == pc = "processed"

\* The rows of the sheet below the header
SheetRows == IF raw_data = <<>> THEN <<>> ELSE Tail(raw_data)

HasDate(r) == Len(r) >= 1 /\ to_datetime(r[1]).valid
HasDescription(r) == Len(r) >= 2 /\ Strip(r[2]) # <<>>

\* The number in the Amount cell once '$', ',' and outer blanks are removed
StrippedAmount(r) == to_numeric(Strip(Remove(Remove(r[4], "$"), ",")))
HasAmount(r) == Len(r) >= 4 /\ StrippedAmount(r).valid

\* The number in the Amount cell as it is, with ',' and outer blanks removed
PlainAmount(r) == to_numeric(Strip(Remove(r[4], ",")))

\* C22: process_transactions drops, without raising, every raw row that
\* lacks a parseable date, a description, or a numeric amount after stripping
\* currency symbols and thousands separators; every transaction it outputs
\* has a valid date, a non-empty description and an amount that is a number.
C22_DropsIncomplete ==
    /\ pc # "raised"
    /\ Processed =>
          /\ Len(df) = Cardinality({i \in DOMAIN SheetRows :
                                       /\ HasDate(SheetRows[i])
                                       /\ HasDescription(SheetRows[i])
                                       /\ HasAmount(SheetRows[i])})
          /\ \A j \in DOMAIN df : df[j].Date.valid /\ df[j].Description # <<>>

\* What holds of the output: the rows with a date and a number are kept,
\* with '$' stripped or not, each output row has a valid date, and an amount
\* of zero was written as zero
C22_DateAndAmount ==
    Processed =>
        /\ \/ Len(df) = Cardinality({i \in DOMAIN SheetRows :
                                        HasDate(SheetRows[i]) /\ HasAmount(SheetRows[i])})
           \/ Len(df) = Cardinality({i \in DOMAIN SheetRows :
                                        /\ HasDate(SheetRows[i])
                                        /\ Len(SheetRows[i]) >= 4
                                        /\ PlainAmount(SheetRows[i]).valid})
        /\ \A j \in DOMAIN df :
              /\ df[j].Date.valid
              /\ \E i \in DOMAIN SheetRows :
                    /\ HasDate(SheetRows[i]) /\ HasAmount(SheetRows[i])
                    /\ StrippedAmount(SheetRows[i]).cents = df[j].Amount
                    /\ to_datetime(SheetRows[i][1]) = df[j].Date

\* A row with a date and an amount and a blank description is kept
C22_BlankDescriptionKept ==
    /\ Processed
    /\ Len(SheetRows) = 1
    /\ Len(df) = 1
    /\ df[1].Description = <<>>
    /\ df[1].Amount = -1250

\* A sheet whose rows are all dropped
C22_AllDropped ==
    /\ Len(SheetRows) = 1
    /\ ~HasDate(SheetRows[1])
    /\ df = <<>>
    /\ pc \in {"processed", "raised"}

\* A sheet whose only row is dropped and the call raises
C22_Raised == pc = "raised" /\ Len(SheetRows) = 1

\* The category the rule gives a raw row: its own when it is not blank, else
\* the first of the table with a keyword in the description, else
\* Miscellaneous
MatchingCategories(r) ==
    {k \in DOMAIN EXPENSE_CATEGORIES :
        \E n \in DOMAIN EXPENSE_CATEGORIES[k].keywords :
            Contains(Lower(r[2]), Lower(EXPENSE_CATEGORIES[k].keywords[n]))}
ExpectedCategory(r) ==
    IF Strip(r[3]) # <<>> THEN Strip(r[3])
    ELSE IF MatchingCategories(r) = {}
    THEN <<"M", "i", "s", "c", "e", "l", "l", "a", "n", "e", "o", "u", "s">>
    ELSE EXPENSE_CATEGORIES[CHOOSE k \in MatchingCategories(r) :
                                \A m \in MatchingCategories(r) : k <= m].category

\* C23: a row whose category is non-blank keeps that category, trimmed; a
\* row whose category is blank gets the first category, in keyword-table
\* order, one of whose keywords is a case-insensitive substring of the
\* description, and 'Miscellaneous' when no keyword matches.
C23_Categorization ==
    Processed =>
        \A j \in DOMAIN df :
            \E i \in DOMAIN SheetRows :
                /\ HasDate(SheetRows[i]) /\ HasAmount(SheetRows[i])
                /\ to_datetime(SheetRows[i][1]) = df[j].Date
                /\ Strip(SheetRows[i][2]) = df[j].Description
                /\ StrippedAmount(SheetRows[i]).cents = df[j].Amount
                /\ df[j].Category = ExpectedCategory(PaddedRow(SheetRows[i]))

\* 'Uber Eats' has keywords of Food & Dining and of Transportation
C23_Witness ==
    /\ Processed
    /\ Len(df) = 1
    /\ df[1].Description = <<"U", "b", "e", "r", " ", "E", "a", "t", "s">>
    /\ Cardinality(MatchingCategories(SheetRows[1])) = 2
    /\ df[1].Category = EXPENSE_CATEGORIES[1].category

\* Upper case in the description, a category of blanks
C23_UpperCase ==
    /\ Processed
    /\ Len(df) = 1
    /\ SheetRows[1][3] = <<" ", " ">>
    /\ df[1].Description = <<"S", "T", "A", "R", "B", "U", "C", "K", "S", " ", "1", "2">>
    /\ df[1].Category = EXPENSE_CATEGORIES[1].category

\* A category with outer blanks is kept trimmed, whatever the description
C23_Trimmed ==
    /\ Processed
    /\ Len(df) = 1
    /\ SheetRows[1][3] = <<" ", "S", "h", "o", "p", "p", "i", "n", "g", " ">>
    /\ df[1].Description = <<"U", "b", "e", "r", " ", "E", "a", "t", "s">>
    /\ df[1].Category = EXPENSE_CATEGORIES[3].category

\* No keyword: Miscellaneous
C23_Miscellaneous ==
    /\ Processed
    /\ Len(df) = 1
    /\ MatchingCategories(SheetRows[1]) = {}
    /\ df[1].Description # <<>>
    /\ df[1].Category = <<"M", "i", "s", "c", "e", "l", "l", "a", "n", "e", "o", "u", "s">>

(***************************************************************************)
(* Row order                                                               *)
(***************************************************************************)
\* The permutations of the rows of the batch
RowOrders ==
    {p \in [DOMAIN df -> DOMAIN df] : \A i, j \in DOMAIN df : p[i] = p[j] => i = j}
Permuted(p) == [i \in DOMAIN df |-> df[p[i]]]

\* C25: row-order independence: for any batch and any permutation of its
\* rows, analyze_daily_overspending returns the same result (same date,
\* totals, three status lists, score, label and recommendations), also when
\* the batch contains transactions of more than one date.
C25_RowOrder ==
    pc = "analysed" =>
        \A p \in RowOrders : analyze_daily_overspending(config, Permuted(p)) = analysis

\* Everything but the date is the same in every row order
C25_ExceptDate ==
    pc = "analysed" /\ df # <<>> =>
        \A p \in RowOrders :
            [analyze_daily_overspending(config, Permuted(p)) EXCEPT !.date = analysis.date]
                = analysis

\* The date is the date of the first row
C25_FirstRow == pc = "analysed" /\ df # <<>> => analysis.date = df[1].Date

\* A batch of two dates with an overspent category
C25_TwoDates ==
    /\ pc = "analysed"
    /\ Len(df) = 3
    /\ df[1].Date # df[3].Date
    /\ analysis.date = df[1].Date
    /\ analysis.overspending_alerts # <<>>
    /\ analysis.recommendations # <<>>

(***************************************************************************)
(* Batches without expenses or without income                              *)
(***************************************************************************)
NoExpenses == df # <<>> /\ \A i \in DOMAIN df : df[i].Amount >= 0
NoIncome == df # <<>> /\ \A i \in DOMAIN df : df[i].Amount < 0

AnalysesRun == analysis_results # <<>>
TrendsCalled == spending_trends # NoSpendingTrends

\* analyze_spending_trends returned a dict
TrendsReturned == "raised" \notin DOMAIN spending_trends

\* The ratios of the three analyses
Ratios ==
    {analysis_results.trend_analysis.weekly_average_daily,
     analysis_results.trend_analysis.yesterday_vs_average.difference,
     analysis_results.trend_analysis.yesterday_vs_average.percentage_change,
     analysis_results.budget_sensitivity.scenarios.reduce_dining_10.percentage_reduction,
     analysis_results.budget_sensitivity.scenarios.reduce_shopping_20.percentage_reduction,
     analysis_results.budget_sensitivity.scenarios.eliminate_entertainment.percentage_reduction,
     analysis_results.cash_flow_health.expense_to_income_ratio,
     analysis_results.cash_flow_health.savings_rate}

\* C26: for a non-empty batch that contains no expense transactions or no
\* income, no analyzer operation (analyze_spending_trends, trend/variance,
\* budget scenarios, cash-flow health) raises an exception, and every ratio
\* with a zero denominator yields the defined default 0 or is skipped, never
\* an undefined or infinite value.
C26_Degenerate ==
    NoExpenses \/ NoIncome =>
        /\ TrendsCalled => TrendsReturned
        /\ AnalysesRun => \A f \in Ratios : f.den # 0

\* A batch of expenses without income raises nothing and every ratio is
\* defined; the ratios on income are 0
C26_NoIncomeDefined ==
    NoIncome =>
        /\ TrendsCalled => TrendsReturned
        /\ AnalysesRun =>
              /\ \A f \in Ratios : f.den # 0
              /\ analysis_results.cash_flow_health.expense_to_income_ratio = Frac(0, 1)
              /\ analysis_results.cash_flow_health.savings_rate = Frac(0, 1)

\* Income alone: analyze_spending_trends raises
C26_Raised == NoExpenses /\ TrendsCalled /\ ~TrendsReturned

\* Income alone: the average and the reductions are undefined, the
\* percentage change is the default 0
C26_Undefined ==
    /\ NoExpenses
    /\ AnalysesRun
    /\ analysis_results.trend_analysis.weekly_average_daily.den = 0
    /\ analysis_results.budget_sensitivity.scenarios.reduce_dining_10.percentage_reduction.den = 0
    /\ analysis_results.trend_analysis.yesterday_vs_average.percentage_change = Frac(0, 1)

\* Expenses alone, both operations done
C26_NoIncomeDone == NoIncome /\ AnalysesRun /\ TrendsCalled /\ Len(df) >= 3

(***************************************************************************)
(* Order of the composition, and what single checks imply for the level    *)
(***************************************************************************)
\* The checks that triggered, by their place in the evaluation
TriggeredChecks == {i \in DOMAIN checks : checks[i].is_risk}

\* The recommendations of the triggered checks from the i-th check on
RECURSIVE RecommendationsFrom(_)
RecommendationsFrom(i) ==
    IF i > Len(checks) THEN <<>>
    ELSE (IF checks[i].is_risk THEN checks[i].recommendations ELSE <<>>)
         \o RecommendationsFrom(i + 1)

\* C27: the checks are evaluated in the order Volatility, Concentration,
\* Trend, Liquidity, Behavioral: factors holds exactly one entry per
\* triggered check in that order, recommendations is the concatenation of
\* the triggered checks' lists in that order with at least one
\* recommendation per triggered check, and a check that did not trigger
\* contributes neither a factor nor a recommendation.
C27_EvaluationOrder ==
    Assessed =>
        /\ Len(assessment.factors) = Cardinality(TriggeredChecks)
        /\ \A k \in DOMAIN assessment.factors :
              \E i \in TriggeredChecks :
                  /\ assessment.factors[k] = CheckOrder[i]
                  /\ Cardinality({j \in TriggeredChecks : j < i}) = k - 1
        /\ assessment.recommendations = RecommendationsFrom(1)
        /\ \A i \in TriggeredChecks : Len(checks[i].recommendations) >= 1
        /\ \A i \in DOMAIN checks \ TriggeredChecks :
              \A k \in DOMAIN assessment.factors : assessment.factors[k] # CheckOrder[i]

\* Concentration, liquidity and behavioral trigger, volatility and trend do
\* not
C27_Witness ==
    /\ Assessed
    /\ TriggeredChecks = {2, 4, 5}
    /\ assessment.factors = <<"concentration", "liquidity", "behavioral">>
    /\ assessment.recommendations
           = checks[2].recommendations \o checks[4].recommendations \o checks[5].recommendations
    /\ checks[2].recommendations # checks[4].recommendations

\* The cash-flow result handed to the liquidity check, if there is one
CashFlow == DictGetOr(analysis_results, "cash_flow_health", <<>>)

\* The week had income and spent more than it
SpentMoreThanEarned ==
    /\ "weekly_income" \in DOMAIN CashFlow
    /\ CashFlow.weekly_income > 0
    /\ CashFlow.net_cash_flow < 0

\* C28: when the cash-flow result of _analyze_cash_flow_health has positive
\* income and a negative net flow, the expense ratio exceeds 0.9, the
\* liquidity severity is at least 80 and the risk level is High Risk,
\* whatever the other four checks report.
C28_NegativeFlowIsHighRisk ==
    (Assessed /\ SpentMoreThanEarned) =>
        /\ CashFlow.weekly_expenses > CashFlow.weekly_income
        /\ 10 * CashFlow.expense_to_income_ratio.num > 9 * CashFlow.expense_to_income_ratio.den
        /\ checks[4].is_risk
        /\ checks[4].severity >= 80
        /\ assessment.risk_level = "High Risk"

\* Income 100, expenses 112: the liquidity check alone triggers, with
\* severity 50 + 42
C28_Witness ==
    /\ Assessed
    /\ SpentMoreThanEarned
    /\ CashFlow.weekly_income = 10000
    /\ CashFlow.weekly_expenses = 11200
    /\ TriggeredChecks = {4}
    /\ checks[4].severity = 92
    /\ assessment.risk_level = "High Risk"

\* The same with a concentration factor before it and a behavioral factor of
\* severity 20 after it
C28_WithLaterCheck ==
    /\ Assessed
    /\ SpentMoreThanEarned
    /\ TriggeredChecks = {2, 4, 5}
    /\ checks[5].severity = 20
    /\ assessment.risk_level = "High Risk"

\* C29: a triggered concentration check has severity at least 60, so the
\* risk level is Moderate Risk or High Risk; a batch whose expenses all fall
\* in one category gets concentration severity 100 and High Risk; a batch
\* with expenses in one or two categories triggers the check.
C29_Concentration ==
    Assessed =>
        /\ checks[2].is_risk =>
              /\ checks[2].severity >= 60
              /\ assessment.risk_level \in {"Moderate Risk", "High Risk"}
        /\ Cardinality(ExpenseCategories) = 1 =>
              /\ checks[2].is_risk
              /\ checks[2].severity = 100
              /\ assessment.risk_level = "High Risk"
        /\ Cardinality(ExpenseCategories) \in {1, 2} => checks[2].is_risk

\* A share of 0.45 among three categories: severity 67, Moderate Risk
C29_Witness ==
    /\ Assessed
    /\ Cardinality(ExpenseCategories) = 3
    /\ TriggeredChecks = {2}
    /\ checks[2].severity = 67
    /\ assessment.risk_level = "Moderate Risk"

\* One category only
C29_Single ==
    /\ Assessed
    /\ Cardinality(ExpenseCategories) = 1
    /\ checks[2].severity = 100
    /\ assessment.risk_level = "High Risk"

\* Two categories, the larger with a share of 0.6
C29_Two ==
    /\ Assessed
    /\ Cardinality(ExpenseCategories) = 2
    /\ checks[2].is_risk
    /\ checks[2].severity = 90

\* Three categories with the largest share at 0.4: not triggered
C29_AtThreshold ==
    /\ Assessed
    /\ Cardinality(ExpenseCategories) = 3
    /\ ~checks[2].is_risk
    /\ checks[2].severity = 60

(***************************************************************************)
(* Date-only transactions and the late-night sub-check                     *)
(***************************************************************************)
\* The batch has expenses and every one of them is stamped at midnight
DateOnlyExpenses ==
    /\ ExpenseCount > 0
    /\ \A i \in DOMAIN df : Is_Expense(df[i]) => df[i].Date.hour = 0

\* "late night" is among the patterns the behavioral check reports
LateNightReported ==
    \E k \in DOMAIN checks[5].pattern : checks[5].pattern[k] = "late night"

\* C30: transactions recorded with day granularity only (timestamps at
\* midnight) are not counted as late-night transactions: a batch of
\* date-only expenses never triggers the late-night sub-check and so does
\* not by itself make the behavioral factor fire.
C30_DateOnlyNotLateNight ==
    (Assessed /\ DateOnlyExpenses) =>
        /\ ~LateNightReported
        /\ ~checks[5].is_risk

\* What the check does with a date-only batch: every expense counts as
\* late-night, the sub-check triggers and the behavioral factor fires
C30_DateOnlyIsLateNight ==
    (Assessed /\ DateOnlyExpenses) =>
        /\ LateNightCount = ExpenseCount
        /\ LateNightReported
        /\ checks[5].is_risk
        /\ checks[5].severity >= 20

\* Three date-only expenses on a Monday and two on the Tuesday: the
\* behavioral factor fires on the late-night pattern alone
C30_FiresAlone ==
    /\ Assessed
    /\ DateOnlyExpenses
    /\ ExpenseCount = 5
    /\ checks[5].pattern = <<"late night">>
    /\ checks[5].severity = 20
    /\ \E k \in DOMAIN assessment.factors : assessment.factors[k] = "behavioral"

\* Every date the retriever parses from a date-only cell is at midnight
C30_MidnightTimestamps ==
    Processed => \A j \in DOMAIN df : df[j].Date.valid /\ df[j].Date.hour = 0

====
